---- MODULE Spec2Model ----
(***************************************************************************)
(* A model of the rule-based question-to-SQL translator QueryGPT           *)
(* (src/sql_query_generate.py).                                            *)
(*                                                                         *)
(* Text is modelled as a sequence of one-character strings, so that        *)
(* lower-casing, whitespace splitting, substring tests and the regular     *)
(* expressions of the source are computed character by character.  A       *)
(* Python dict is modelled as a sequence of entries in insertion order.    *)
(* Record constructors list their fields in the order TLC keeps them, so   *)
(* that values shared by TLC's workers are never reordered in place.       *)
(* The f-strings of _generate_sql that hold a backslash are accepted by    *)
(* Python 3.12 and later; the model describes the module as such an        *)
(* interpreter runs it.                                                    *)
(***************************************************************************)
EXTENDS Integers, Sequences, FiniteSets, TLC

\* ------------------------------------------------------------------ text

\* Python's None where a text is expected: no text holds a multi-character element.
None == <<"None">>

Range(s) == { s[i] : i \in 1..Len(s) }

SetMin(S) == CHOOSE x \in S : \A y \in S : x <= y

SetMax(S) == CHOOSE x \in S : \A y \in S : x >= y

UpperLetters == <<"A","B","C","D","E","F","G","H","I","J","K","L","M","N","O","P","Q","R","S","T","U","V","W","X","Y","Z">>

LowerLetters == <<"a","b","c","d","e","f","g","h","i","j","k","l","m","n","o","p","q","r","s","t","u","v","w","x","y","z">>

DigitChars == <<"0","1","2","3","4","5","6","7","8","9">>

Whitespace == {" ", "\t", "\n", "\r", "\f"}

UpperSet == Range(UpperLetters)

DigitSet == Range(DigitChars)

WordChars == UpperSet \cup Range(LowerLetters) \cup DigitSet \cup {"_"}

\* str.lower() on one character.
LowerChar(c) ==
    IF c \in UpperSet
    THEN LowerLetters[CHOOSE i \in 1..Len(UpperLetters) : UpperLetters[i] = c]
    ELSE c

\* str.lower().
Lower(text) == [i \in 1..Len(text) |-> LowerChar(text[i])]

\* The Python test `pat in text` on strings.
Contains(text, pat) ==
    \/ pat = <<>>
    \/ \E i \in 0..(Len(text) - Len(pat)) :
          text[i + 1] = pat[1] /\ SubSeq(text, i + 1, i + Len(pat)) = pat

\* str.endswith.
EndsWith(text, suf) ==
    Len(suf) <= Len(text) /\ SubSeq(text, Len(text) - Len(suf) + 1, Len(text)) = suf

\* str.split(): the maximal runs of non-whitespace characters, in order.
RECURSIVE SplitFrom(_, _, _)
SplitFrom(text, i, cur) ==
    IF i > Len(text)
    THEN IF cur = <<>> THEN <<>> ELSE <<cur>>
    ELSE IF text[i] \in Whitespace
         THEN IF cur = <<>>
              THEN SplitFrom(text, i + 1, <<>>)
              ELSE <<cur>> \o SplitFrom(text, i + 1, <<>>)
         ELSE SplitFrom(text, i + 1, Append(cur, text[i]))

Split(text) == SplitFrom(text, 1, <<>>)

\* str.split(sep) for a one-character separator: empty pieces are kept.
RECURSIVE SplitOnFrom(_, _, _, _)
SplitOnFrom(text, sep, i, cur) ==
    IF i > Len(text)
    THEN <<cur>>
    ELSE IF text[i] = sep
         THEN <<cur>> \o SplitOnFrom(text, sep, i + 1, <<>>)
         ELSE SplitOnFrom(text, sep, i + 1, Append(cur, text[i]))

SplitOn(text, sep) == SplitOnFrom(text, sep, 1, <<>>)

\* sep.join(parts).
RECURSIVE Join(_, _)
Join(sep, parts) ==
    IF parts = <<>> THEN <<>>
    ELSE IF Len(parts) = 1 THEN parts[1]
    ELSE parts[1] \o sep \o Join(sep, Tail(parts))

\* str.isdigit(): non-empty and every character a digit.
IsDigit(text) == text # <<>> /\ \A i \in 1..Len(text) : text[i] \in DigitSet

DigitVal(c) == (CHOOSE i \in 1..Len(DigitChars) : DigitChars[i] = c) - 1

\* int(text) for a text of digits.
RECURSIVE ParseInt(_)
ParseInt(text) ==
    IF text = <<>> THEN 0
    ELSE 10 * ParseInt(SubSeq(text, 1, Len(text) - 1)) + DigitVal(text[Len(text)])

\* str(n) for n >= 0.
RECURSIVE IntToStr(_)
IntToStr(n) ==
    IF n < 10 THEN <<DigitChars[n + 1]>>
    ELSE IntToStr(n \div 10) \o <<DigitChars[(n % 10) + 1]>>

\* ------------------------------------------------ regular expressions (re)

\* An atom of a pattern: a literal, a character class repeated (\s+, \d+, \w+, .*),
\* or a non-capturing group of alternatives.  A pattern is a sequence of atoms.
Lit(s) == [s |-> s, k |-> "lit", ps |-> <<>>]

Ws == [s |-> <<"s">>, k |-> "plus", ps |-> <<>>]

Digits == [s |-> <<"d">>, k |-> "plus", ps |-> <<>>]

WordRun == [s |-> <<"w">>, k |-> "plus", ps |-> <<>>]

AnyRun == [s |-> <<".">>, k |-> "star", ps |-> <<>>]

Alt(ps) == [s |-> <<>>, k |-> "alt", ps |-> ps]

P(s) == <<Lit(s)>>

ClassHas(cls, c) ==
    CASE cls = "s" -> c \in Whitespace
      [] cls = "d" -> c \in DigitSet
      [] cls = "w" -> c \in WordChars
      [] OTHER -> c # "\n"

\* The positions at which a run of class characters starting after position i may
\* end, for a run of at least `least` characters.
RunEnds(text, i, cls, least) ==
    { j \in (i + least)..Len(text) : \A m \in (i + 1)..j : ClassHas(cls, text[m]) }

\* The positions at which atoms k.. of pat can end when matched from position i.
RECURSIVE Ends(_, _, _, _)
Ends(pat, k, text, i) ==
    IF k > Len(pat) THEN {i}
    ELSE LET a == pat[k] IN
         CASE a.k = "lit" ->
                IF /\ i + Len(a.s) <= Len(text)
                   /\ a.s # <<>> => text[i + 1] = a.s[1]
                   /\ SubSeq(text, i + 1, i + Len(a.s)) = a.s
                THEN Ends(pat, k + 1, text, i + Len(a.s))
                ELSE {}
           [] a.k = "plus" ->
                UNION { Ends(pat, k + 1, text, j) : j \in RunEnds(text, i, a.s[1], 1) }
           [] a.k = "star" ->
                UNION { Ends(pat, k + 1, text, j) : j \in RunEnds(text, i, a.s[1], 0) }
           [] OTHER ->
                UNION { UNION { Ends(pat, k + 1, text, j) : j \in Ends(a.ps[n], 1, text, i) }
                        : n \in 1..Len(a.ps) }

\* bool(re.search(pat, text)).
Search(pat, text) == \E i \in 0..Len(text) : Ends(pat, 1, text, i) # {}

\* any(re.search(p, text) for p in pats): also a search for the alternation p1|p2|...
SearchAny(pats, text) == \E n \in 1..Len(pats) : Search(pats[n], text)

\* re.search(pat, text) for a pattern whose last atom is its one capturing group:
\* <<>> when nothing matches, else <<group(1)>> of the leftmost match.  In the
\* patterns of the source the group is a greedy class run that follows \s+, so the
\* group's start is fixed by the match's start and its end is the longest run.
SearchGroup(pat, text) ==
    LET starts == { i \in 0..Len(text) : Ends(pat, 1, text, i) # {} }
    IN  IF starts = {} THEN <<>>
        ELSE LET i0 == SetMin(starts)
                 last == <<pat[Len(pat)]>>
                 pre == SubSeq(pat, 1, Len(pat) - 1)
                 p0 == SetMax({ p \in Ends(pre, 1, text, i0) : Ends(last, 1, text, p) # {} })
                 e0 == SetMax(Ends(last, 1, text, p0))
             IN  <<SubSeq(text, p0 + 1, e0)>>

\* ------------------------------------------------------------ safety gate

unsafe_keywords ==
    << <<"i","n","s","e","r","t">>, <<"u","p","d","a","t","e">>, <<"d","e","l","e","t","e">>, <<"d","r","o","p">>, <<"t","r","u","n","c","a","t","e">>, <<"a","l","t","e","r">>, <<"c","r","e","a","t","e">>,
       <<"m","o","d","i","f","y">>, <<"r","e","m","o","v","e">>, <<"d","e","s","t","r","o","y">>, <<"w","i","p","e">>, <<"e","r","a","s","e">> >>

AllOrThe == Alt(<< P(<<"a","l","l">>), P(<<"t","h","e">>) >>)

unsafe_patterns ==
    << << Lit(<<"a","d","d">>), Ws, Alt(<< <<Lit(<<"a">>), Ws>>, <<>> >>), Lit(<<"n","e","w">>) >>,
       << Lit(<<"d","e","l","e","t","e">>), Ws, AllOrThe >>,
       << Lit(<<"r","e","m","o","v","e">>), Ws, AllOrThe >>,
       << Lit(<<"u","p","d","a","t","e">>), Ws, AllOrThe >>,
       << Lit(<<"m","o","d","i","f","y">>), Ws, AllOrThe >>,
       << Lit(<<"c","h","a","n","g","e">>), Ws, AllOrThe >>,
       << Lit(<<"d","r","o","p">>), Ws, AllOrThe >> >>

\* `keyword in query_lower.split()`.
KeywordHit(query_lower) ==
    \E n \in 1..Len(unsafe_keywords) : unsafe_keywords[n] \in Range(Split(query_lower))

PatternHit(query_lower) == SearchAny(unsafe_patterns, query_lower)

_is_unsafe_query(query) ==
    LET query_lower == Lower(query)
    IN  KeywordHit(query_lower) \/ PatternHit(query_lower)

\* ---------------------------------------------------------------- analysis

\* The dict intent_patterns, in insertion order.
intent_patterns ==
    << [intent |-> "COUNT", patterns |->
          << P(<<"h","o","w"," ","m","a","n","y">>), P(<<"n","u","m","b","e","r"," ","o","f">>), P(<<"c","o","u","n","t"," ","o","f">>), P(<<"t","o","t","a","l"," ","n","u","m","b","e","r">>),
             << Lit(<<"h","o","w"," ","m","a","n","y">>), AnyRun, Lit(<<"a","r","e"," ","t","h","e","r","e">>) >>, P(<<"w","h","a","t"," ","i","s"," ","t","h","e"," ","c","o","u","n","t">>) >>],
       [intent |-> "AVERAGE", patterns |->
          << P(<<"a","v","e","r","a","g","e">>), P(<<"a","v","g">>), P(<<"m","e","a","n">>), P(<<"t","y","p","i","c","a","l">>),
             P(<<"w","h","a","t"," ","i","s"," ","t","h","e"," ","a","v","e","r","a","g","e">>), << Lit(<<"c","a","l","c","u","l","a","t","e">>), AnyRun, Lit(<<"a","v","e","r","a","g","e">>) >> >>],
       [intent |-> "SUM", patterns |->
          << P(<<"s","u","m">>), P(<<"t","o","t","a","l">>), P(<<"a","d","d"," ","u","p">>), P(<<"c","o","m","b","i","n","e","d">>),
             P(<<"w","h","a","t"," ","i","s"," ","t","h","e"," ","t","o","t","a","l">>), << Lit(<<"c","a","l","c","u","l","a","t","e">>), AnyRun, Lit(<<"s","u","m">>) >> >>],
       [intent |-> "MAX", patterns |->
          << P(<<"m","a","x","i","m","u","m">>), P(<<"m","a","x">>), P(<<"h","i","g","h","e","s","t">>), P(<<"l","a","r","g","e","s","t">>), P(<<"m","o","s","t">>),
             P(<<"w","h","a","t"," ","i","s"," ","t","h","e"," ","m","a","x","i","m","u","m">>), << Lit(<<"f","i","n","d">>), AnyRun, Lit(<<"h","i","g","h","e","s","t">>) >> >>],
       [intent |-> "MIN", patterns |->
          << P(<<"m","i","n","i","m","u","m">>), P(<<"m","i","n">>), P(<<"l","o","w","e","s","t">>), P(<<"s","m","a","l","l","e","s","t">>), P(<<"l","e","a","s","t">>),
             P(<<"w","h","a","t"," ","i","s"," ","t","h","e"," ","m","i","n","i","m","u","m">>), << Lit(<<"f","i","n","d">>), AnyRun, Lit(<<"l","o","w","e","s","t">>) >> >>],
       [intent |-> "DISTINCT", patterns |->
          << P(<<"u","n","i","q","u","e">>), P(<<"d","i","s","t","i","n","c","t">>), P(<<"d","i","f","f","e","r","e","n","t">>),
             P(<<"l","i","s","t"," ","o","f"," ","u","n","i","q","u","e">>), P(<<"s","h","o","w"," ","d","i","s","t","i","n","c","t">>) >>] >>

\* A variant of DetectIntent with the fault of a loop without break: the last
\* group with a matching pattern wins.
DetectIntentLastHit(query_lower) ==
    LET hits == { n \in 1..Len(intent_patterns) :
                    SearchAny(intent_patterns[n].patterns, query_lower) }
    IN  IF hits = {} THEN "SELECT" ELSE intent_patterns[SetMax(hits)].intent

\* The loop over intent_patterns.items(): the first group with a matching pattern.
DetectIntent(query_lower) ==
    LET hits == { n \in 1..Len(intent_patterns) :
                    SearchAny(intent_patterns[n].patterns, query_lower) }
    IN  IF hits = {} THEN "SELECT" ELSE intent_patterns[SetMin(hits)].intent

grouping_patterns ==
    << P(<<"g","r","o","u","p"," ","b","y">>), P(<<"p","e","r">>), P(<<"e","a","c","h">>), P(<<"b","y">>), P(<<"f","o","r"," ","e","a","c","h">>),
       P(<<"a","g","g","r","e","g","a","t","e","d"," ","b","y">>), P(<<"b","r","o","k","e","n"," ","d","o","w","n"," ","b","y">>) >>

ordering_patterns ==
    << P(<<"o","r","d","e","r"," ","b","y">>), P(<<"s","o","r","t"," ","b","y">>), P(<<"s","o","r","t","e","d"," ","b","y">>), P(<<"a","r","r","a","n","g","e"," ","b","y">>), P(<<"r","a","n","k"," ","b","y">>),
       << Lit(<<"t","o","p"," ">>), Digits >>, << Lit(<<"b","o","t","t","o","m"," ">>), Digits >>,
       P(<<"h","i","g","h","e","s","t">>), P(<<"l","o","w","e","s","t">>), P(<<"m","o","s","t">>), P(<<"l","e","a","s","t">>),
       P(<<"a","s","c","e","n","d","i","n","g">>), P(<<"d","e","s","c","e","n","d","i","n","g">>), P(<<"a","l","p","h","a","b","e","t","i","c","a","l">>) >>

descending_patterns ==
    << P(<<"d","e","s","c","e","n","d","i","n","g">>), P(<<"h","i","g","h","e","s","t">>), P(<<"m","o","s","t">>), P(<<"t","o","p">>), P(<<"m","a","x">>),
       P(<<"m","a","x","i","m","u","m">>), P(<<"l","a","r","g","e","s","t">>), P(<<"g","r","e","a","t","e","s","t">>) >>

\* A variant of limit_pattern with the fault of also taking the bare word "limit".
limit_pattern_with_limit ==
    << Alt(<< P(<<"t","o","p">>), P(<<"f","i","r","s","t">>), P(<<"l","a","s","t">>), P(<<"l","i","m","i","t"," ","t","o">>), P(<<"l","i","m","i","t">>),
              P(<<"s","h","o","w"," ","o","n","l","y">>), P(<<"d","i","s","p","l","a","y"," ","o","n","l","y">>) >>),
       Ws, Digits >>

limit_pattern ==
    << Alt(<< P(<<"t","o","p">>), P(<<"f","i","r","s","t">>), P(<<"l","a","s","t">>), P(<<"l","i","m","i","t"," ","t","o">>), P(<<"s","h","o","w"," ","o","n","l","y">>),
              P(<<"d","i","s","p","l","a","y"," ","o","n","l","y">>) >>),
       Ws, Digits >>

condition_patterns ==
    << P(<<"w","h","e","r","e">>), P(<<"i","f">>), P(<<"w","h","e","n">>), P(<<"w","i","t","h">>),
       << Lit(<<"t","h","a","t"," ">>), Alt(<< P(<<"h","a","v","e">>), P(<<"h","a","s">>) >>) >>,
       P(<<"g","r","e","a","t","e","r"," ","t","h","a","n">>), P(<<"l","e","s","s"," ","t","h","a","n">>), P(<<"e","q","u","a","l"," ","t","o">>), P(<<"m","o","r","e"," ","t","h","a","n">>),
       P(<<"f","e","w","e","r"," ","t","h","a","n">>), P(<<"b","e","f","o","r","e">>), P(<<"a","f","t","e","r">>), P(<<"b","e","t","w","e","e","n">>),
       << Lit(<<"f","r","o","m">>), AnyRun, Lit(<<"t","o">>) >>, P(<<"s","i","n","c","e">>), P(<<"u","n","t","i","l">>),
       P(<<"l","i","k","e">>), P(<<"c","o","n","t","a","i","n","s">>), P(<<"m","a","t","c","h","e","s">>), P(<<"s","t","a","r","t","s"," ","w","i","t","h">>), P(<<"e","n","d","s"," ","w","i","t","h">>),
       P(<<"i","n"," ","t","h","e"," ","r","a","n","g","e">>), P(<<"w","i","t","h","i","n">>), P(<<"o","u","t","s","i","d","e">>), P(<<"e","x","c","l","u","d","i","n","g">>), P(<<"i","n","c","l","u","d","i","n","g">>) >>

time_patterns ==
    << P(<<"w","h","e","n">>), P(<<"d","a","t","e">>), P(<<"t","i","m","e">>), P(<<"y","e","a","r">>), P(<<"m","o","n","t","h">>), P(<<"d","a","y">>), P(<<"h","o","u","r">>),
       P(<<"m","i","n","u","t","e">>), P(<<"s","e","c","o","n","d">>), P(<<"w","e","e","k">>), P(<<"q","u","a","r","t","e","r">>), P(<<"r","e","c","e","n","t">>), P(<<"l","a","s","t">>),
       P(<<"t","h","i","s">>), P(<<"p","r","e","v","i","o","u","s">>), P(<<"n","e","x","t">>), P(<<"c","u","r","r","e","n","t">>), P(<<"p","a","s","t">>), P(<<"f","u","t","u","r","e">>),
       P(<<"t","o","d","a","y">>), P(<<"y","e","s","t","e","r","d","a","y">>), P(<<"t","o","m","o","r","r","o","w">>), P(<<"m","o","n","d","a","y">>), P(<<"t","u","e","s","d","a","y">>),
       P(<<"w","e","d","n","e","s","d","a","y">>), P(<<"t","h","u","r","s","d","a","y">>), P(<<"f","r","i","d","a","y">>), P(<<"s","a","t","u","r","d","a","y">>), P(<<"s","u","n","d","a","y">>) >>

\* limit_value is <<>> for None and <<n>> for the integer n.
_analyze_query(query) ==
    LET query_lower == Lower(query)
        limit_match == SearchGroup(limit_pattern, query_lower)
    IN  [ intent |-> DetectIntent(query_lower),
          has_grouping |-> SearchAny(grouping_patterns, query_lower),
          has_ordering |-> SearchAny(ordering_patterns, query_lower),
          order_direction |->
              IF SearchAny(descending_patterns, query_lower) THEN <<"D","E","S","C">> ELSE <<"A","S","C">>,
          has_limit |-> limit_match # <<>>,
          limit_value |->
              IF limit_match # <<>> THEN <<ParseInt(limit_match[1])>> ELSE <<>>,
          has_conditions |-> SearchAny(condition_patterns, query_lower),
          is_time_based |-> SearchAny(time_patterns, query_lower),
          original_query |-> query ]

\* ------------------------------------------------------------------ schema

\* A schema is None or a dict of table name -> list of columns; the dict is the
\* sequence `tables` of its entries in insertion order.
NoSchema == [tables |-> <<>>, kind |-> "None"]

Dict(tables) == [tables |-> tables, kind |-> "dict"]

Col(name, data_type, description) ==
    [name |-> name, data_type |-> data_type, description |-> description]

Table(name, columns) == [name |-> name, columns |-> columns]

\* list(schema.keys()).
TableNames(schema) == [i \in 1..Len(schema.tables) |-> schema.tables[i].name]

\* schema.get(table_name, []).
ColumnsOf(schema, table_name) ==
    LET hit == { i \in 1..Len(schema.tables) : schema.tables[i].name = table_name }
    IN  IF hit = {} THEN <<>> ELSE schema.tables[CHOOSE i \in hit : TRUE].columns

RECURSIVE Flatten(_)
Flatten(seqs) == IF seqs = <<>> THEN <<>> ELSE seqs[1] \o Flatten(Tail(seqs))

\* list(dict.fromkeys(xs)): duplicates removed, first occurrences kept in order.
RECURSIVE Dedup(_)
Dedup(xs) ==
    IF xs = <<>> THEN <<>>
    ELSE LET init == Dedup(SubSeq(xs, 1, Len(xs) - 1))
             x == xs[Len(xs)]
         IN  IF x \in Range(init) THEN init ELSE Append(init, x)

\* The f-string of set_schema.
TableDescription(t) ==
    <<"T","a","b","l","e"," ","'">> \o t.name \o <<"'"," ","c","o","n","t","a","i","n","i","n","g"," ","c","o","l","u","m","n","s",":"," ">>
        \o Join(<<","," ">>, [i \in 1..Len(t.columns) |-> t.columns[i].name])

\* table_descriptions is a dict table name -> text, kept as a function.
NoDescriptions == [n \in {} |-> <<>>]

\* table_descriptions after set_schema(schema): entries of earlier schemas stay.
DescriptionsAfter(descriptions, schema) ==
    LET names == Range(TableNames(schema))
        desc(n) == TableDescription(schema.tables[CHOOSE i \in 1..Len(schema.tables) :
                                                    schema.tables[i].name = n])
    IN  [n \in (DOMAIN descriptions) \cup names |->
            IF n \in names THEN desc(n) ELSE descriptions[n]]

\* table_descriptions.get(table_name, "").
DescriptionOf(descriptions, table_name) ==
    IF table_name \in DOMAIN descriptions THEN descriptions[table_name] ELSE <<>>

\* ----------------------------------------------------------------- binding

ColumnRef(table_name, col) ==
    [data_type |-> col.data_type, table |-> table_name, column |-> col.name]

TableExact(table_lower, query) ==
    \/ Contains(query, table_lower)
    \/ /\ EndsWith(table_lower, <<"s">>)
       /\ Contains(query, SubSeq(table_lower, 1, Len(table_lower) - 1))

WordHit(name_lower, query) ==
    \E word \in Range(SplitOn(name_lower, "_")) : Len(word) > 3 /\ Contains(query, word)

\* any(word in desc for word in query.split()).
DescHit(desc_lower, query) == \E word \in Range(Split(query)) : Contains(desc_lower, word)

\* What the first loop appends to relevant_tables for one table: an exact match
\* appends once and skips the rest; otherwise the partial match and the
\* description match each append.
TableMatches(t, descriptions, query) ==
    LET table_lower == Lower(t.name)
    IN  IF TableExact(table_lower, query) THEN <<t.name>>
        ELSE (IF WordHit(table_lower, query) THEN <<t.name>> ELSE <<>>)
             \o (IF DescHit(Lower(DescriptionOf(descriptions, t.name)), query)
                 THEN <<t.name>> ELSE <<>>)

\* relevant_tables after the first loop (duplicates still in).
MatchedTables(schema, descriptions, query) ==
    Flatten([i \in 1..Len(schema.tables) |->
                TableMatches(schema.tables[i], descriptions, query)])

\* relevant_columns after the first loop: all columns of the exactly matched tables.
ExactColumns(schema, query) ==
    Flatten([i \in 1..Len(schema.tables) |->
                IF TableExact(Lower(schema.tables[i].name), query)
                THEN [j \in 1..Len(schema.tables[i].columns) |->
                         ColumnRef(schema.tables[i].name, schema.tables[i].columns[j])]
                ELSE <<>>])

\* The tables owning a column whose name occurs in the text.
ColumnMentionTables(schema, query) ==
    Flatten([i \in 1..Len(schema.tables) |->
                IF \E j \in 1..Len(schema.tables[i].columns) :
                       Contains(query, Lower(schema.tables[i].columns[j].name))
                THEN <<schema.tables[i].name>> ELSE <<>>])

like_columns == { <<"e","m","a","i","l">>, <<"n","a","m","e">>, <<"d","e","s","c","r","i","p","t","i","o","n">> }

\* What the second loop appends to relevant_columns for one column.
ColumnMatches(table_name, col, query) ==
    LET column_name == Lower(col.name)
        ref == ColumnRef(table_name, col)
    IN  IF Contains(query, column_name) THEN <<ref>>
        ELSE (IF WordHit(column_name, query) THEN <<ref>> ELSE <<>>)
             \o (IF DescHit(Lower(col.description), query) THEN <<ref>> ELSE <<>>)
             \o (IF Contains(query, <<"l","i","k","e">>) /\ column_name \in like_columns
                 THEN <<ref>> ELSE <<>>)

\* A variant of RelevantTables with the fault of skipping the recently used tables.
RelevantTablesWithoutRecent(schema, descriptions, recently_used_tables, query) ==
    LET matched == MatchedTables(schema, descriptions, query)
        found == IF matched # <<>> THEN matched ELSE ColumnMentionTables(schema, query)
        unique == Dedup(found)
    IN  IF unique = <<>> /\ schema.tables # <<>>
        THEN <<TableNames(schema)[1]>>
        ELSE unique

\* relevant_tables as returned: the matched tables, else the recently used ones,
\* else the tables of mentioned columns; deduplicated; else the first table.
RelevantTables(schema, descriptions, recently_used_tables, query) ==
    LET matched == MatchedTables(schema, descriptions, query)
        found == IF matched # <<>> THEN matched
                 ELSE IF recently_used_tables # <<>> THEN recently_used_tables
                 ELSE ColumnMentionTables(schema, query)
        unique == Dedup(found)
    IN  IF unique = <<>> /\ schema.tables # <<>>
        THEN <<TableNames(schema)[1]>>
        ELSE unique

_identify_schema_elements(schema, descriptions, recently_used_tables, query_analysis) ==
    LET query == Lower(query_analysis.original_query)
        relevant_tables == RelevantTables(schema, descriptions, recently_used_tables, query)
        matched_columns ==
            Flatten([i \in 1..Len(relevant_tables) |->
                LET cols == ColumnsOf(schema, relevant_tables[i])
                IN  Flatten([j \in 1..Len(cols) |->
                                ColumnMatches(relevant_tables[i], cols[j], query)])])
    IN  [ tables |-> relevant_tables,
          columns |-> ExactColumns(schema, query) \o matched_columns ]

\* ---------------------------------------------------------------- assembly

aggregate_intents == {"COUNT", "AVERAGE", "SUM", "MAX", "MIN"}

numeric_intents == {"AVERAGE", "SUM", "MAX", "MIN"}

numeric_types == {"integer", "number", "float", "decimal"}

time_types == {"timestamp", "date", "datetime"}

\* The dict mapping an intent to its SQL function name.
func_name(intent) ==
    CASE intent = "COUNT" -> <<"C","O","U","N","T">>
      [] intent = "AVERAGE" -> <<"A","V","G">>
      [] intent = "SUM" -> <<"S","U","M">>
      [] intent = "MAX" -> <<"M","A","X">>
      [] OTHER -> <<"M","I","N">>

\* A select item; the keys an item does not have are None.
SelectItem(type, function, table, column, alias) ==
    [table |-> table, column |-> column, type |-> type, function |-> function,
     alias |-> alias]

\* A variant of AggColumn with the fault of taking the last bound column.
AggColumnLast(intent, columns) == columns[Len(columns)]

\* The column an aggregate applies to: the first numeric one when the intent
\* needs a number and one is bound, else the first bound column.
AggColumn(intent, columns) ==
    LET numeric == { i \in 1..Len(columns) : columns[i].data_type \in numeric_types }
    IN  IF intent \in numeric_intents /\ numeric # {}
        THEN columns[SetMin(numeric)]
        ELSE columns[1]

\* COUNT(*), for an aggregate with no bound column.
CountAll == SelectItem("aggregation", <<"C","O","U","N","T">>, <<>>, <<"*">>, <<"c","o","u","n","t">>)

\* The select item for all columns.
Wildcard == SelectItem("all", None, <<>>, <<"*">>, None)

SelectColumns(intent, columns) ==
    IF intent \in aggregate_intents
    THEN IF columns # <<>>
         THEN LET agg_column == AggColumn(intent, columns)
                  fn == func_name(intent)
              IN  << SelectItem("aggregation", fn, agg_column.table, agg_column.column,
                                Lower(fn) \o <<"_">> \o agg_column.column) >>
         ELSE << CountAll >>
    ELSE IF columns # <<>>
         THEN [i \in 1..Len(columns) |->
                  SelectItem("column", None, columns[i].table, columns[i].column, None)]
         ELSE << Wildcard >>

\* The test of the GROUP BY loop: an aggregation select item names this column.
IsAggregated(select_columns, col) ==
    \E i \in 1..Len(select_columns) :
        select_columns[i].type = "aggregation" /\ select_columns[i].column = col.column

\* A variant of GroupBy with the fault of grouping every bound column.
GroupByEveryColumn(has_grouping, select_columns, columns) ==
    IF has_grouping
    THEN [i \in 1..Len(columns) |-> [table |-> columns[i].table, column |-> columns[i].column]]
    ELSE <<>>

GroupBy(has_grouping, select_columns, columns) ==
    IF has_grouping
    THEN Flatten([i \in 1..Len(columns) |->
                     IF IsAggregated(select_columns, columns[i]) THEN <<>>
                     ELSE << [table |-> columns[i].table, column |-> columns[i].column] >>])
    ELSE <<>>

OrderBy(has_ordering, order_direction, select_columns) ==
    IF has_ordering /\ select_columns # <<>>
    THEN LET agg_cols == { i \in 1..Len(select_columns) :
                             select_columns[i].type = "aggregation" }
             order_col == IF agg_cols # {} THEN select_columns[SetMin(agg_cols)]
                          ELSE select_columns[1]
         IN  << [table |-> order_col.table, column |-> order_col.column,
                 direction |-> order_direction] >>
    ELSE <<>>

\* limit is <<>> for None: a limit_value of 0 is falsy and gives no limit.
Limit(has_limit, limit_value) ==
    IF has_limit /\ limit_value # <<>> /\ limit_value[1] # 0 THEN limit_value ELSE <<>>

Condition(table, column, operator, value) ==
    [table |-> table, column |-> column, operator |-> operator, value |-> value]

\* The patterns are f-strings over the lower-cased column name, which the model
\* takes as a literal: the names of the schemas here hold no regex operator.
equality_patterns(col_name) ==
    << << Lit(col_name), Ws, Lit(<<"i","s">>), Ws, WordRun >>,
       << Lit(col_name), Ws, Lit(<<"e","q","u","a","l","s">>), Ws, WordRun >>,
       << Lit(col_name), Ws, Lit(<<"=">>), Ws, WordRun >>,
       << Lit(col_name), Ws, Lit(<<"a","f","t","e","r">>), Ws, Digits >>,
       << Lit(col_name), Ws, Lit(<<"b","e","f","o","r","e">>), Ws, Digits >>,
       << Lit(col_name), Ws, Lit(<<"g","r","e","a","t","e","r"," ","t","h","a","n">>), Ws, Digits >>,
       << Lit(col_name), Ws, Lit(<<"l","e","s","s"," ","t","h","a","n">>), Ws, Digits >> >>

like_patterns(col_name) ==
    << << Lit(col_name), Ws, Lit(<<"c","o","n","t","a","i","n","s">>), Ws, WordRun >>,
       << Lit(col_name), Ws, Lit(<<"l","i","k","e">>), Ws, WordRun >>,
       << Lit(col_name), Ws, Lit(<<"m","a","t","c","h","e","s">>), Ws, WordRun >>,
       << Lit(col_name), Ws, Lit(<<"w","i","t","h">>), Ws, WordRun >> >>

gt_patterns(col_name) ==
    << << Lit(col_name), Ws, Lit(<<"g","r","e","a","t","e","r">>), Ws, Lit(<<"t","h","a","n">>), Ws, Digits >>,
       << Lit(col_name), Ws, Lit(<<">">>), Ws, Digits >>,
       << Lit(col_name), Ws, Lit(<<"m","o","r","e">>), Ws, Lit(<<"t","h","a","n">>), Ws, Digits >> >>

lt_patterns(col_name) ==
    << << Lit(col_name), Ws, Lit(<<"l","e","s","s">>), Ws, Lit(<<"t","h","a","n">>), Ws, Digits >>,
       << Lit(col_name), Ws, Lit(<<"<">>), Ws, Digits >>,
       << Lit(col_name), Ws, Lit(<<"f","e","w","e","r">>), Ws, Lit(<<"t","h","a","n">>), Ws, Digits >> >>

\* One condition with this operator for every pattern of the list that matches.
PatternConditions(patterns, col, operator, query_text) ==
    Flatten([n \in 1..Len(patterns) |->
                LET m == SearchGroup(patterns[n], query_text)
                IN  IF m = <<>> THEN <<>>
                    ELSE << Condition(col.table, col.column, operator, m[1]) >>])

LikeValue(col_name, value, query_text) ==
    IF col_name = <<"e","m","a","i","l">> /\ (Contains(query_text, <<"g","m","a","i","l">>) \/ Contains(query_text, <<"y","a","h","o","o">>))
    THEN <<"%">> \o value \o <<"%">>
    ELSE value

LikeConditions(col, query_text) ==
    LET col_name == Lower(col.column)
        found == PatternConditions(like_patterns(col_name), col, <<"L","I","K","E">>, query_text)
    IN  [i \in 1..Len(found) |->
            [found[i] EXCEPT !.value = LikeValue(col_name, found[i].value, query_text)]]

MentionsAfter(query_text) == Contains(query_text, <<"a","f","t","e","r">>) \/ Contains(query_text, <<"s","i","n","c","e">>)

\* The elif branch of the date/time rule reads current_time, which only the if
\* branch assigns: reaching it raises UnboundLocalError.
ReadsUnboundTime(col, query_text) ==
    /\ col.data_type \in time_types
    /\ ~MentionsAfter(query_text)
    /\ Contains(query_text, <<"b","e","f","o","r","e">>)

TimeConditions(col, query_text, current_time) ==
    IF col.data_type \in time_types /\ MentionsAfter(query_text)
    THEN << Condition(col.table, col.column, <<">">>, current_time) >>
    ELSE <<>>

\* The conditions one bound column contributes, in the order the loop appends them.
ColumnConditions(col, query_text, current_time) ==
    LET col_name == Lower(col.column)
    IN  TimeConditions(col, query_text, current_time)
        \o PatternConditions(equality_patterns(col_name), col, <<"=">>, query_text)
        \o PatternConditions(gt_patterns(col_name), col, <<">">>, query_text)
        \o PatternConditions(lt_patterns(col_name), col, <<"<">>, query_text)
        \o LikeConditions(col, query_text)

\* A variant of WhereConditions with the fault of not testing has_conditions.
WhereConditionsUntested(has_conditions, columns, query_text, current_time) ==
    Flatten([i \in 1..Len(columns) |-> ColumnConditions(columns[i], query_text, current_time)])

\* where_conditions: filled by the loop over the bound columns, which is entered
\* only when the analysis has has_conditions.
WhereConditions(has_conditions, columns, query_text, current_time) ==
    IF has_conditions
    THEN Flatten([i \in 1..Len(columns) |->
                     ColumnConditions(columns[i], query_text, current_time)])
    ELSE <<>>

\* The components of a call that built none.
NoComponents ==
    [select |-> <<>>, from |-> <<>>, where |-> <<>>, group_by |-> <<>>,
     order_by |-> <<>>, limit |-> <<>>]

\* raised is the exception the call ends with, "" when it returns.
_determine_query_components(query_analysis, tables, columns, current_time) ==
    LET query_text == Lower(query_analysis.original_query)
        select_columns == SelectColumns(query_analysis.intent, columns)
        crash == /\ query_analysis.has_conditions
                 /\ \E i \in 1..Len(columns) : ReadsUnboundTime(columns[i], query_text)
    IN  IF crash
        THEN [raised |-> "UnboundLocalError", query_type |-> "SELECT",
              components |-> NoComponents]
        ELSE [raised |-> "", query_type |-> "SELECT", components |->
               [ select |-> select_columns,
                 from |-> tables,
                 where |-> WhereConditions(query_analysis.has_conditions, columns,
                                           query_text, current_time),
                 group_by |-> GroupBy(query_analysis.has_grouping, select_columns, columns),
                 order_by |-> OrderBy(query_analysis.has_ordering,
                                      query_analysis.order_direction, select_columns),
                 limit |-> Limit(query_analysis.has_limit, query_analysis.limit_value) ] ]

\* --------------------------------------------------------------- rendering

\* metadata is a dict; "relationships", when present, is a dict key -> record.
NoMetadata == [relationships |-> <<>>, has_relationships |-> FALSE]

Relationships(entries) == [relationships |-> entries, has_relationships |-> TRUE]

Rel(key, from_column, to_column) ==
    [key |-> key, from_column |-> from_column, to_column |-> to_column]

HasKey(relationships, key) == \E n \in 1..Len(relationships) : relationships[n].key = key

Lookup(relationships, key) ==
    relationships[CHOOSE n \in 1..Len(relationships) : relationships[n].key = key]

TablePrefix(table) == IF table # <<>> THEN table \o <<".">> ELSE <<>>

RenderSelectItem(col) ==
    IF col.type = "all" THEN <<"*">>
    ELSE IF col.type = "aggregation"
    THEN LET table_prefix == IF col.table # <<>> /\ col.column # <<"*">>
                             THEN col.table \o <<".">> ELSE <<>>
             aggregation == col.function \o <<"(">> \o table_prefix \o col.column \o <<")">>
         IN  IF col.alias # None /\ col.alias # <<>>
             THEN aggregation \o <<" ","A","S"," ">> \o col.alias
             ELSE aggregation
    ELSE TablePrefix(col.table) \o col.column

\* A variant of JoinFor with the fault of probing the reverse key first.
JoinForReverseFirst(relationships, from_tables, i) ==
    LET curr_table == from_tables[i]
        forward(p) == from_tables[p] \o <<"_">> \o curr_table
        reverse(p) == curr_table \o <<"_">> \o from_tables[p]
        hits == { p \in 1..(i - 1) :
                    HasKey(relationships, forward(p)) \/ HasKey(relationships, reverse(p)) }
    IN  IF hits = {}
        THEN <<"\n"," "," "," "," ","L","E","F","T"," ","J","O","I","N"," ">> \o curr_table \o <<" ","O","N"," ","1","=","1">>
        ELSE LET p == SetMin(hits)
                 prev_table == from_tables[p]
             IN  IF HasKey(relationships, reverse(p))
                 THEN LET rel == Lookup(relationships, reverse(p))
                      IN  <<"\n"," "," "," "," ","J","O","I","N"," ">> \o curr_table \o <<" ","O","N"," ">> \o curr_table \o <<".">>
                            \o rel.from_column \o <<" ","="," ">> \o prev_table \o <<".">>
                            \o rel.to_column
                 ELSE LET rel == Lookup(relationships, forward(p))
                      IN  <<"\n"," "," "," "," ","J","O","I","N"," ">> \o curr_table \o <<" ","O","N"," ">> \o prev_table \o <<".">>
                            \o rel.from_column \o <<" ","="," ">> \o curr_table \o <<".">>
                            \o rel.to_column

\* The join text for the table at position i of from_tables: the earlier tables
\* are probed in order, the forward key before the reverse key.
JoinFor(relationships, from_tables, i) ==
    LET curr_table == from_tables[i]
        forward(p) == from_tables[p] \o <<"_">> \o curr_table
        reverse(p) == curr_table \o <<"_">> \o from_tables[p]
        hits == { p \in 1..(i - 1) :
                    HasKey(relationships, forward(p)) \/ HasKey(relationships, reverse(p)) }
    IN  IF hits = {}
        THEN <<"\n"," "," "," "," ","L","E","F","T"," ","J","O","I","N"," ">> \o curr_table \o <<" ","O","N"," ","1","=","1">>
        ELSE LET p == SetMin(hits)
                 prev_table == from_tables[p]
             IN  IF HasKey(relationships, forward(p))
                 THEN LET rel == Lookup(relationships, forward(p))
                      IN  <<"\n"," "," "," "," ","J","O","I","N"," ">> \o curr_table \o <<" ","O","N"," ">> \o prev_table \o <<".">>
                            \o rel.from_column \o <<" ","="," ">> \o curr_table \o <<".">>
                            \o rel.to_column
                 ELSE LET rel == Lookup(relationships, reverse(p))
                      IN  <<"\n"," "," "," "," ","J","O","I","N"," ">> \o curr_table \o <<" ","O","N"," ">> \o curr_table \o <<".">>
                            \o rel.from_column \o <<" ","="," ">> \o prev_table \o <<".">>
                            \o rel.to_column

\* A variant of FromClause with the fault of leaving out a table that has no
\* relationship with an earlier one.
FromClauseRelatedOnly(metadata, from_tables) ==
    <<"F","R","O","M","\n"," "," "," "," ">> \o from_tables[1]
        \o Flatten([n \in 1..(Len(from_tables) - 1) |->
               IF /\ metadata.has_relationships
                  /\ \E p \in 1..n :
                        \/ HasKey(metadata.relationships,
                                  from_tables[p] \o <<"_">> \o from_tables[n + 1])
                        \/ HasKey(metadata.relationships,
                                  from_tables[n + 1] \o <<"_">> \o from_tables[p])
               THEN JoinFor(metadata.relationships, from_tables, n + 1)
               ELSE <<>>])

\* For from_tables of length other than 1; an empty list is an IndexError, which
\* RenderRaises reports.
FromClause(metadata, from_tables) ==
    IF Len(from_tables) = 1 THEN <<"F","R","O","M","\n"," "," "," "," ">> \o from_tables[1]
    ELSE <<"F","R","O","M","\n"," "," "," "," ">> \o from_tables[1]
         \o Flatten([n \in 1..(Len(from_tables) - 1) |->
                IF metadata.has_relationships
                THEN JoinFor(metadata.relationships, from_tables, n + 1)
                ELSE <<"\n"," "," "," "," ","C","R","O","S","S"," ","J","O","I","N"," ">> \o from_tables[n + 1]])

RenderValue(cond) ==
    IF ~IsDigit(cond.value)
    THEN IF cond.operator = <<"L","I","K","E">>
         THEN <<"'","%">> \o cond.value \o <<"%","'">>
         ELSE <<"'">> \o cond.value \o <<"'">>
    ELSE cond.value

RenderCondition(cond) ==
    TablePrefix(cond.table) \o cond.column \o <<" ">> \o cond.operator \o <<" ">>
        \o RenderValue(cond)

RenderGroupColumn(col) == TablePrefix(col.table) \o col.column

\* A variant of OrderKey with the fault of keeping the key as the plan has it.
OrderKeyAsPlanned(col, select) == col.column

\* An order key of "*" is replaced by the first select item's column, or by 1.
OrderKey(col, select) ==
    IF col.column = <<"*">>
    THEN IF select # <<>> /\ select[1].column # <<"*">> THEN select[1].column ELSE <<"1">>
    ELSE col.column

RenderOrderColumn(col, select) ==
    TablePrefix(col.table) \o OrderKey(col, select) \o <<" ">> \o col.direction

QueryParts(metadata, components) ==
    LET ordered(col) == RenderOrderColumn(col, components.select)
    IN  << <<"S","E","L","E","C","T","\n"," "," "," "," ">> \o Join(<<",","\n"," "," "," "," ">>, [i \in 1..Len(components.select) |-> RenderSelectItem(components.select[i])]) >>
        \o << FromClause(metadata, components.from) >>
        \o (IF components.where # <<>>
            THEN << <<"W","H","E","R","E","\n"," "," "," "," ">>
                      \o Join(<<" ","A","N","D","\n"," "," "," "," ">>, [i \in 1..Len(components.where) |-> RenderCondition(components.where[i])]) >>
            ELSE <<>>)
        \o (IF components.group_by # <<>>
            THEN << <<"G","R","O","U","P"," ","B","Y","\n"," "," "," "," ">>
                      \o Join(<<",","\n"," "," "," "," ">>, [i \in 1..Len(components.group_by) |-> RenderGroupColumn(components.group_by[i])]) >>
            ELSE <<>>)
        \o (IF components.order_by # <<>>
            THEN << <<"O","R","D","E","R"," ","B","Y","\n"," "," "," "," ">>
                      \o Join(<<",","\n"," "," "," "," ">>, [i \in 1..Len(components.order_by) |-> ordered(components.order_by[i])]) >>
            ELSE <<>>)
        \o (IF components.limit # <<>>
            THEN << <<"L","I","M","I","T"," ">> \o IntToStr(components.limit[1]) >>
            ELSE <<>>)

\* components["from"][0] on an empty list.
RenderRaises(components) == components.from = <<>>

\* A variant of _generate_sql with the fault of leaving out the terminator.
_generate_sql_unterminated(metadata, query_type, components) ==
    Join(<<"\n">>, QueryParts(metadata, components))

_generate_sql(metadata, query_type, components) ==
    Join(<<"\n">>, QueryParts(metadata, components)) \o <<";">>

\* ------------------------------------------------------------- explanation

FromList(components) == Join(<<","," ">>, components.from)

ColumnNames(items) == [i \in 1..Len(items) |-> items[i].column]

\* The dict operator_text, with the operator itself as the default.
operator_text(operator) ==
    CASE operator = <<"=">> -> <<"e","q","u","a","l","s">>
      [] operator = <<">">> -> <<"i","s"," ","g","r","e","a","t","e","r"," ","t","h","a","n">>
      [] operator = <<"<">> -> <<"i","s"," ","l","e","s","s"," ","t","h","a","n">>
      [] operator = <<">","=">> -> <<"i","s"," ","g","r","e","a","t","e","r"," ","t","h","a","n"," ","o","r"," ","e","q","u","a","l"," ","t","o">>
      [] operator = <<"<","=">> -> <<"i","s"," ","l","e","s","s"," ","t","h","a","n"," ","o","r"," ","e","q","u","a","l"," ","t","o">>
      [] operator = <<"!","=">> -> <<"i","s"," ","n","o","t"," ","e","q","u","a","l"," ","t","o">>
      [] OTHER -> operator

DirectionText(direction) == IF direction = <<"D","E","S","C">> THEN <<"d","e","s","c","e","n","d","i","n","g">> ELSE <<"a","s","c","e","n","d","i","n","g">>

ExplainSelect(components) ==
    LET first == components.select[1]
    IN  IF first.type = "all"
        THEN <<"T","h","i","s"," ","q","u","e","r","y"," ","r","e","t","r","i","e","v","e","s"," ","a","l","l"," ","c","o","l","u","m","n","s"," ","f","r","o","m"," ","t","h","e"," ">> \o FromList(components)
               \o <<" ","t","a","b","l","e","(","s",")">>
        ELSE IF first.type = "aggregation"
        THEN IF Lower(first.function) = <<"c","o","u","n","t">> /\ first.column = <<"*">>
             THEN <<"T","h","i","s"," ","q","u","e","r","y"," ","c","o","u","n","t","s"," ","a","l","l"," ","r","o","w","s"," ","i","n"," ","t","h","e"," ">> \o FromList(components)
                    \o <<" ","t","a","b","l","e","(","s",")">>
             ELSE <<"T","h","i","s"," ","q","u","e","r","y"," ","c","a","l","c","u","l","a","t","e","s"," ","t","h","e"," ">> \o Lower(first.function) \o <<" ","o","f"," ">>
                    \o first.column \o <<" ","f","r","o","m"," ","t","h","e"," ">> \o FromList(components) \o <<" ","t","a","b","l","e","(","s",")">>
        ELSE <<"T","h","i","s"," ","q","u","e","r","y"," ","r","e","t","r","i","e","v","e","s"," ">> \o Join(<<","," ">>, ColumnNames(components.select))
               \o <<" ","f","r","o","m"," ","t","h","e"," ">> \o FromList(components) \o <<" ","t","a","b","l","e","(","s",")">>

ExplainCondition(cond) ==
    cond.column \o <<" ">> \o operator_text(cond.operator) \o <<" ">> \o cond.value

_generate_explanation(query_type, components) ==
    ExplainSelect(components)
    \o (IF components.where # <<>>
        THEN <<" ","w","h","e","r","e"," ">> \o Join(<<" ","a","n","d"," ">>, [i \in 1..Len(components.where) |-> ExplainCondition(components.where[i])])
        ELSE <<>>)
    \o (IF components.group_by # <<>>
        THEN <<","," ","g","r","o","u","p","e","d"," ","b","y"," ">> \o Join(<<","," ">>, ColumnNames(components.group_by))
        ELSE <<>>)
    \o (IF components.order_by # <<>>
        THEN <<","," ","o","r","d","e","r","e","d"," ","b","y"," ">> \o components.order_by[1].column \o <<" ","i","n"," ">>
               \o DirectionText(components.order_by[1].direction) \o <<" ","o","r","d","e","r">>
        ELSE <<>>)
    \o (IF components.limit # <<>>
        THEN <<","," ","l","i","m","i","t","e","d"," ","t","o"," ">> \o IntToStr(components.limit[1]) \o <<" ","r","e","s","u","l","t","s">>
        ELSE <<>>)
    \o <<".">>

\* intent.lower().
IntentLower(intent) ==
    CASE intent = "COUNT" -> Lower(<<"C","O","U","N","T">>)
      [] intent = "AVERAGE" -> Lower(<<"A","V","E","R","A","G","E">>)
      [] intent = "SUM" -> Lower(<<"S","U","M">>)
      [] intent = "MAX" -> Lower(<<"M","A","X">>)
      [] OTHER -> Lower(<<"M","I","N">>)

ReasonSelect(components) ==
    LET first == components.select[1]
    IN  IF first.type = "all"
        THEN <<"I"," ","s","e","l","e","c","t","e","d"," ","a","l","l"," ","c","o","l","u","m","n","s"," ","(","*",")"," ","s","i","n","c","e"," ","t","h","e"," ","q","u","e","s","t","i","o","n"," ","d","o","e","s","n","'","t"," ","s","p","e","c","i","f","y"," ","w","h","i","c","h"," ","f","i","e","l","d","s"," ","t","o"," ","r","e","t","r","i","e","v","e",".">>
        ELSE IF first.type = "aggregation"
        THEN IF first.column = <<"*">>
             THEN <<"I"," ","u","s","e","d"," ","C","O","U","N","T","(","*",")"," ","t","o"," ","c","o","u","n","t"," ","a","l","l"," ","r","o","w","s"," ","s","i","n","c","e"," ","t","h","e"," ","q","u","e","s","t","i","o","n"," ","a","s","k","s"," ","f","o","r"," ","a"," ","c","o","u","n","t"," ","o","f"," ","e","n","t","r","i","e","s",".">>
             ELSE <<"I"," ","a","p","p","l","i","e","d"," ">> \o first.function \o <<" ","t","o"," ","t","h","e"," ">> \o first.column
                    \o <<" ","c","o","l","u","m","n"," ","b","a","s","e","d"," ","o","n"," ","t","h","e"," ","q","u","e","s","t","i","o","n","'","s"," ","i","n","t","e","n","t",".">>
        ELSE <<"I"," ","s","e","l","e","c","t","e","d"," ","t","h","e"," ","s","p","e","c","i","f","i","c"," ","c","o","l","u","m","n","s"," ">> \o Join(<<","," ">>, ColumnNames(components.select))
               \o <<" ","w","h","i","c","h"," ","a","r","e"," ","r","e","l","e","v","a","n","t"," ","t","o"," ","t","h","e"," ","q","u","e","s","t","i","o","n",".">>

_generate_reasoning(original_query, query_analysis, query_type, components) ==
    Join(<<" ">>,
        << <<"I"," ","a","n","a","l","y","z","e","d"," ","t","h","e"," ","q","u","e","s","t","i","o","n"," ","\"">> \o original_query \o <<"\""," ","t","o"," ","u","n","d","e","r","s","t","a","n","d"," ","t","h","e"," ","u","s","e","r","'","s"," ","i","n","t","e","n","t",".">> >>
        \o (IF components.from # <<>>
            THEN << <<"I"," ","i","d","e","n","t","i","f","i","e","d"," ">> \o FromList(components)
                      \o <<" ","a","s"," ","t","h","e"," ","r","e","l","e","v","a","n","t"," ","t","a","b","l","e","(","s",")"," ","b","a","s","e","d"," ","o","n"," ","t","h","e"," ","q","u","e","s","t","i","o","n"," ","c","o","n","t","e","x","t",".">> >>
            ELSE <<>>)
        \o (IF query_analysis.intent \in aggregate_intents
            THEN << <<"T","h","e"," ","q","u","e","s","t","i","o","n"," ","i","n","d","i","c","a","t","e","s"," ","a"," ","n","e","e","d"," ","f","o","r"," ">> \o IntentLower(query_analysis.intent)
                      \o <<" ","a","g","g","r","e","g","a","t","i","o","n"," ","b","a","s","e","d"," ","o","n"," ","k","e","y","w","o","r","d","s"," ","u","s","e","d",".">> >>
            ELSE <<>>)
        \o << ReasonSelect(components) >>
        \o (IF components.where # <<>>
            THEN << <<"I"," ","a","d","d","e","d"," ">> \o IntToStr(Len(components.where))
                      \o <<" ","f","i","l","t","e","r"," ","c","o","n","d","i","t","i","o","n","(","s",")"," ","t","o"," ","m","a","t","c","h"," ","t","h","e"," ","c","r","i","t","e","r","i","a"," ","i","n"," ","t","h","e"," ","q","u","e","s","t","i","o","n",".">> >>
            ELSE <<>>)
        \o (IF components.group_by # <<>>
            THEN << <<"I"," ","g","r","o","u","p","e","d"," ","b","y"," ">> \o Join(<<","," ">>, ColumnNames(components.group_by))
                      \o <<" ","s","i","n","c","e"," ","t","h","e"," ","q","u","e","s","t","i","o","n"," ","a","s","k","s"," ","f","o","r"," ","r","e","s","u","l","t","s"," ","o","r","g","a","n","i","z","e","d"," ","b","y"," ","t","h","e","s","e"," ","d","i","m","e","n","s","i","o","n","s",".">> >>
            ELSE <<>>)
        \o (IF components.order_by # <<>>
            THEN << <<"I"," ","o","r","d","e","r","e","d"," ","r","e","s","u","l","t","s"," ","b","y"," ">> \o components.order_by[1].column \o <<" ","i","n"," ">>
                      \o DirectionText(components.order_by[1].direction)
                      \o <<" ","o","r","d","e","r"," ","a","s"," ","i","m","p","l","i","e","d"," ","b","y"," ","t","h","e"," ","q","u","e","s","t","i","o","n",".">> >>
            ELSE <<>>)
        \o (IF components.limit # <<>>
            THEN << <<"I"," ","l","i","m","i","t","e","d"," ","r","e","s","u","l","t","s"," ","t","o"," ">> \o IntToStr(components.limit[1])
                      \o <<" ","r","o","w","s"," ","b","a","s","e","d"," ","o","n"," ","t","h","e"," ","q","u","e","s","t","i","o","n","'","s"," ","r","e","q","u","e","s","t"," ","f","o","r"," ","a"," ","s","p","e","c","i","f","i","c"," ","n","u","m","b","e","r"," ","o","f"," ","r","e","s","u","l","t","s",".">> >>
            ELSE <<>>)
        \o << <<"T","h","e"," ","q","u","e","r","y"," ","i","s"," ","r","e","a","d","-","o","n","l","y"," ","(","S","E","L","E","C","T",")"," ","t","o"," ","e","n","s","u","r","e"," ","d","a","t","a"," ","s","a","f","e","t","y"," ","a","n","d"," ","p","r","e","v","e","n","t"," ","a","n","y"," ","d","a","t","a","b","a","s","e"," ","m","o","d","i","f","i","c","a","t","i","o","n","s",".">>,
              <<"P","a","r","a","m","e","t","e","r","s"," ","s","h","o","u","l","d"," ","b","e"," ","p","r","o","p","e","r","l","y"," ","e","s","c","a","p","e","d"," ","w","h","e","n"," ","e","x","e","c","u","t","i","n","g"," ","t","h","i","s"," ","q","u","e","r","y"," ","t","o"," ","p","r","e","v","e","n","t"," ","S","Q","L"," ","i","n","j","e","c","t","i","o","n",".">> >>)

\* ------------------------------------------------------------------ agent

\* tables[:5].
RecentCap == 5

\* A variant of Take with the fault of keeping the whole list.
TakeAll(xs, n) == xs

Take(xs, n) == SubSeq(xs, 1, IF Len(xs) < n THEN Len(xs) ELSE n)

\* QueryGPT.__init__: db_config is "None" or "config".
QueryGPT(schema, db_config) ==
    [ schema |-> schema, recently_used_tables |-> <<>>, metadata |-> NoMetadata,
      db_config |-> db_config, connection |-> "None",
      table_descriptions |-> NoDescriptions ]

\* A variant of SchemaValid with the fault of testing nothing.
SchemaTakenAsIs(schema) == TRUE

\* `not self.schema or not isinstance(self.schema, dict)` is false.
SchemaValid(schema) == schema.kind = "dict" /\ schema.tables # <<>>

unsafe_explanation ==
    <<"T","h","i","s"," ","r","e","q","u","e","s","t"," ","a","p","p","e","a","r","s"," ","t","o"," ","i","n","v","o","l","v","e"," ","d","a","t","a"," ","m","o","d","i","f","i","c","a","t","i","o","n"," ","w","h","i","c","h"," ","i","s"," ","n","o","t"," ","a","l","l","o","w","e","d"," ","f","o","r"," ","s","a","f","e","t","y"," ","r","e","a","s","o","n","s",".">>

unsafe_reasoning ==
    <<"T","h","e"," ","r","e","q","u","e","s","t"," ","c","o","n","t","a","i","n","s"," ","t","e","r","m","s"," ","t","h","a","t"," ","s","u","g","g","e","s","t"," ","d","a","t","a"," ","m","o","d","i","f","i","c","a","t","i","o","n"," ","(","I","N","S","E","R","T",","," ","U","P","D","A","T","E",","," ","D","E","L","E","T","E",","," ","e","t","c",".",")"," ","w","h","i","c","h"," ","c","o","u","l","d"," ","p","o","t","e","n","t","i","a","l","l","y"," ","a","l","t","e","r"," ","o","r"," ","d","e","s","t","r","o","y"," ","d","a","t","a",".">>

schema_error == <<"V","a","l","i","d"," ","s","c","h","e","m","a"," ","i","n","f","o","r","m","a","t","i","o","n"," ","i","s"," ","r","e","q","u","i","r","e","d">>

connection_error == <<"F","a","i","l","e","d"," ","t","o"," ","c","o","n","n","e","c","t"," ","t","o"," ","d","a","t","a","b","a","s","e",":"," ">>

name_error == <<"c","a","n","n","o","t"," ","a","c","c","e","s","s"," ","l","o","c","a","l"," ","v","a","r","i","a","b","l","e"," ","'","c","u","r","r","e","n","t","_","t","i","m","e","'"," ","w","h","e","r","e"," ","i","t"," ","i","s"," ","n","o","t"," ","a","s","s","o","c","i","a","t","e","d"," ","w","i","t","h"," ","a"," ","v","a","l","u","e">>

\* What the latest call left behind: the operation, the exception it raised (""
\* when it returned), the dict it returned, the stages that ran and what they
\* computed.
NoResult == [returned |-> FALSE]

NoAnalysis == [analysed |-> FALSE]

Outcome(question, raised, message, result, ran, analysis, tables, columns, components) ==
    [ tables |-> tables, columns |-> columns, raised |-> raised,
      components |-> components, question |-> question, message |-> message,
      result |-> result, ran |-> ran, analysis |-> analysis, op |-> "process_query" ]

\* Steps 1 to 5 of process_query for a question that passed the gate;
\* query_analysis is what step 1, self._analyze_query(user_question), returned.
Translate(ag, user_question, current_time, before, query_analysis) ==
    LET bound == _identify_schema_elements(ag.schema, ag.table_descriptions,
                                           ag.recently_used_tables, query_analysis)
        built == _determine_query_components(query_analysis, bound.tables, bound.columns,
                                             current_time)
        stages == before \o <<"analyze", "identify", "components">>
    IN  IF built.raised # ""
        THEN Outcome(user_question, built.raised, name_error, NoResult, stages,
                     query_analysis, bound.tables, bound.columns, NoComponents)
        ELSE IF RenderRaises(built.components)
        THEN Outcome(user_question, "IndexError", <<"l","i","s","t"," ","i","n","d","e","x"," ","o","u","t"," ","o","f"," ","r","a","n","g","e">>, NoResult,
                     stages \o <<"sql">>, query_analysis, bound.tables, bound.columns,
                     built.components)
        ELSE Outcome(user_question, "", <<>>,
                     [ sql |-> _generate_sql(ag.metadata, built.query_type, built.components),
                       safe |-> TRUE,
                       explanation |-> _generate_explanation(built.query_type, built.components),
                       reasoning |-> _generate_reasoning(user_question, query_analysis,
                                                         built.query_type, built.components) ],
                     stages \o <<"sql", "explanation", "reasoning", "remember">>,
                     query_analysis, bound.tables, bound.columns, built.components)

\* The outcome of process_query; connects says whether psycopg2.connect succeeds.
\* The gate and the analysis read the question and nothing else: unsafe is what
\* self._is_unsafe_query(user_question) returns and query_analysis what
\* self._analyze_query(user_question) returns when the call gets that far.
Process(ag, user_question, connects, current_time, unsafe, query_analysis) ==
    IF ~SchemaValid(ag.schema)
    THEN Outcome(user_question, "ValueError", schema_error, NoResult, <<"validate">>,
                 NoAnalysis, <<>>, <<>>, NoComponents)
    ELSE IF ag.db_config # "None" /\ ~connects
    THEN Outcome(user_question, "ConnectionError", connection_error, NoResult,
                 <<"validate", "connect">>, NoAnalysis, <<>>, <<>>, NoComponents)
    ELSE LET before == IF ag.db_config # "None" THEN <<"validate", "connect", "gate">>
                       ELSE <<"validate", "gate">>
         IN  IF unsafe
             THEN Outcome(user_question, "", <<>>,
                          [ sql |-> None, safe |-> FALSE,
                            explanation |-> unsafe_explanation,
                            reasoning |-> unsafe_reasoning ],
                          before, NoAnalysis, <<>>, <<>>, NoComponents)
             ELSE Translate(ag, user_question, current_time, before, query_analysis)

\* A variant of ConnectionAfter with the fault of never keeping the connection.
ConnectionAfterNeverKept(ag, out) == ag.connection

\* self.connection after the call: set when the connection stage succeeded.
ConnectionAfter(ag, out) ==
    IF "gate" \in Range(out.ran) /\ ag.db_config # "None" THEN "open" ELSE ag.connection

\* A variant of RecentAfter with the fault of writing the tables as soon as they
\* are bound, before the stages that can still raise.
RecentAfterWrittenEarly(ag, out) ==
    IF "identify" \in Range(out.ran)
    THEN Take(out.tables, RecentCap)
    ELSE ag.recently_used_tables

\* self.recently_used_tables after the call: written as the last step before the
\* return of a translation.
RecentAfter(ag, out) ==
    IF "remember" \in Range(out.ran)
    THEN Take(out.tables, RecentCap)
    ELSE ag.recently_used_tables

\* The agent after process_query.
AgentAfter(ag, out) ==
    [ag EXCEPT !.connection = ConnectionAfter(ag, out),
               !.recently_used_tables = RecentAfter(ag, out)]

\* generate_sql: its own agent, and a dict without the key "safe".
generate_sql_agent(schema, metadata) ==
    LET agent == QueryGPT(schema, "None")
    IN  IF metadata.has_relationships THEN [agent EXCEPT !.metadata = metadata] ELSE agent

generate_sql_result(out) ==
    IF out.raised # "" THEN NoResult
    ELSE [ sql |-> out.result.sql, explanation |-> out.result.explanation,
           reasoning |-> out.result.reasoning ]

\* ----------------------------------------------------------------- inputs

\* sample_schema.
sample_schema ==
    Dict(<<
      Table(<<"u","s","e","r","s">>, <<
        Col(<<"i","d">>, "integer", <<"U","s","e","r"," ","I","D">>),
        Col(<<"n","a","m","e">>, "varchar", <<"U","s","e","r","'","s"," ","f","u","l","l"," ","n","a","m","e">>),
        Col(<<"e","m","a","i","l">>, "varchar", <<"U","s","e","r","'","s"," ","e","m","a","i","l"," ","a","d","d","r","e","s","s">>),
        Col(<<"c","r","e","a","t","e","d","_","a","t">>, "timestamp", <<"W","h","e","n"," ","u","s","e","r"," ","w","a","s"," ","c","r","e","a","t","e","d">>),
        Col(<<"r","o","l","e">>, "varchar", <<"U","s","e","r"," ","r","o","l","e">>) >>),
      Table(<<"o","r","d","e","r","s">>, <<
        Col(<<"i","d">>, "integer", <<"O","r","d","e","r"," ","I","D">>),
        Col(<<"u","s","e","r","_","i","d">>, "integer", <<"U","s","e","r"," ","w","h","o"," ","p","l","a","c","e","d"," ","t","h","e"," ","o","r","d","e","r">>),
        Col(<<"p","r","o","d","u","c","t","_","i","d">>, "integer", <<"P","r","o","d","u","c","t"," ","o","r","d","e","r","e","d">>),
        Col(<<"q","u","a","n","t","i","t","y">>, "integer", <<"Q","u","a","n","t","i","t","y"," ","o","r","d","e","r","e","d">>),
        Col(<<"p","r","i","c","e">>, "decimal", <<"P","r","i","c","e"," ","p","e","r"," ","u","n","i","t">>),
        Col(<<"o","r","d","e","r","_","d","a","t","e">>, "timestamp", <<"W","h","e","n"," ","o","r","d","e","r"," ","w","a","s"," ","p","l","a","c","e","d">>) >>),
      Table(<<"p","r","o","d","u","c","t","s">>, <<
        Col(<<"i","d">>, "integer", <<"P","r","o","d","u","c","t"," ","I","D">>),
        Col(<<"n","a","m","e">>, "varchar", <<"P","r","o","d","u","c","t"," ","n","a","m","e">>),
        Col(<<"c","a","t","e","g","o","r","y">>, "varchar", <<"P","r","o","d","u","c","t"," ","c","a","t","e","g","o","r","y">>),
        Col(<<"p","r","i","c","e">>, "decimal", <<"P","r","o","d","u","c","t"," ","p","r","i","c","e">>),
        Col(<<"s","t","o","c","k">>, "integer", <<"C","u","r","r","e","n","t"," ","s","t","o","c","k"," ","l","e","v","e","l">>) >>) >>)

\* sample_metadata.
sample_metadata ==
    Relationships(<< Rel(<<"u","s","e","r","s","_","o","r","d","e","r","s">>, <<"i","d">>, <<"u","s","e","r","_","i","d">>),
                     Rel(<<"p","r","o","d","u","c","t","s","_","o","r","d","e","r","s">>, <<"i","d">>, <<"p","r","o","d","u","c","t","_","i","d">>) >>)

\* {"products": [{"name": "price", "data_type": "decimal"}]}
shop_schema == Dict(<< Table(<<"p","r","o","d","u","c","t","s">>, << Col(<<"p","r","i","c","e">>, "decimal", <<>>) >>) >>)

\* {"users": []}
bare_schema == Dict(<< Table(<<"u","s","e","r","s">>, <<>>) >>)

\* {}
empty_schema == Dict(<<>>)

\* Six tables that the word "order" selects, one more than the agent remembers.
wide_schema ==
    Dict(<< Table(<<"o","r","d","e","r","s">>, << Col(<<"i","d">>, "integer", <<>>) >>),
            Table(<<"o","r","d","e","r","_","i","t","e","m","s">>, << Col(<<"i","d">>, "integer", <<>>) >>),
            Table(<<"o","r","d","e","r","_","n","o","t","e","s">>, << Col(<<"i","d">>, "integer", <<>>) >>),
            Table(<<"o","r","d","e","r","_","t","a","g","s">>, << Col(<<"i","d">>, "integer", <<>>) >>),
            Table(<<"o","r","d","e","r","_","l","o","g","s">>, << Col(<<"i","d">>, "integer", <<>>) >>),
            Table(<<"o","r","d","e","r","_","r","e","f","s">>, << Col(<<"i","d">>, "integer", <<>>) >>) >>)

Schemas == { sample_schema, shop_schema, bare_schema, empty_schema, wide_schema }

\* the schemas a caller installs after construction
Replacements == { sample_schema, wide_schema }

Metadatas == { NoMetadata, sample_metadata }

\* datetime.now().strftime("%Y-%m-%d %H:%M:%S") at two moments.
Clock == { <<"2","0","2","6","-","0","1","-","0","1"," ","0","9",":","0","0",":","0","0">>, <<"2","0","2","6","-","0","6","-","3","0"," ","1","8",":","3","0",":","0","0">> }

HowManyUsers == <<"H","o","w"," ","m","a","n","y"," ","u","s","e","r","s"," ","d","o"," ","w","e"," ","h","a","v","e","?">>

TopFiveProducts == <<"W","h","a","t"," ","a","r","e"," ","t","h","e"," ","t","o","p"," ","5"," ","m","o","s","t"," ","e","x","p","e","n","s","i","v","e"," ","p","r","o","d","u","c","t","s","?">>

DeleteAllOrders == <<"d","e","l","e","t","e"," ","a","l","l"," ","o","r","d","e","r","s">>

DropUsers == <<"D","r","o","p"," ","u","s","e","r","s">>

CanYouDelete == <<"C","a","n"," ","y","o","u"," ","d","e","l","e","t","e","?">>

AddNewUser == <<"a","d","d"," ","a"," "," ","n","e","w"," ","u","s","e","r">>

ShowEverything == <<"s","h","o","w"," ","e","v","e","r","y","t","h","i","n","g">>

CreatedBefore == <<"c","r","e","a","t","e","d"," ","b","e","f","o","r","e">>

ListOrders == <<"l","i","s","t"," ","o","r","d","e","r","s">>

AveragePrice == <<"a","v","e","r","a","g","e"," ","p","r","i","c","e">>

UsersLimitFive == <<"s","h","o","w"," ","u","s","e","r","s"," ","l","i","m","i","t"," ","5">>

UsersLimitToThree == <<"l","i","m","i","t"," ","t","o"," ","3"," ","u","s","e","r","s">>

Questions ==
    { HowManyUsers, TopFiveProducts, DeleteAllOrders, DropUsers, CanYouDelete, AddNewUser,
      ShowEverything, CreatedBefore, ListOrders, AveragePrice, UsersLimitFive,
      UsersLimitToThree }

\* ---------------------------------------------------------- state machine

\* The attributes of one QueryGPT object, what the latest call on it left behind
\* and the number of set_schema calls; the attributes of one RealTimeDBManager
\* object and the locals of the turn of its loop.
VARIABLES schema, db_config, connection, table_descriptions, metadata,
          recently_used_tables, last, schema_sets, manager, turn

vars == << schema, db_config, connection, table_descriptions, metadata,
           recently_used_tables, last, schema_sets, manager, turn >>

manager_vars == << manager, turn >>

\* No manager has been built.
NoManager == manager = "None" /\ turn = "None"

agent_vars == << schema, db_config, connection, table_descriptions, metadata,
                 recently_used_tables >>

\* The number of set_schema calls on one agent that the model follows.
MaxSchemaSets == 1

Agent ==
    [ schema |-> schema, recently_used_tables |-> recently_used_tables,
      metadata |-> metadata, db_config |-> db_config, connection |-> connection,
      table_descriptions |-> table_descriptions ]

\* The outcome of an operation that returns None: __init__, set_schema, set_metadata.
Returned(op) ==
    [Outcome(<<>>, "", <<>>, NoResult, <<>>, NoAnalysis, <<>>, <<>>, NoComponents)
        EXCEPT !.op = op]

IsAgent(ag) ==
    /\ schema = ag.schema
    /\ db_config = ag.db_config
    /\ connection = ag.connection
    /\ table_descriptions = ag.table_descriptions
    /\ metadata = ag.metadata
    /\ recently_used_tables = ag.recently_used_tables

\* The agent as one of the two constructor calls of the source builds it:
\* QueryGPT(schema) in generate_sql, QueryGPT(schema=sample_schema, db_config=...)
\* in interactive_cli.
Init ==
    /\ \E s \in Schemas \cup {NoSchema}, c \in {"None", "config"} :
          /\ c = "config" => s = sample_schema
          /\ IsAgent(QueryGPT(s, c))
    /\ last = Returned("__init__")
    /\ schema_sets = 0
    /\ NoManager

set_schema(s) ==
    /\ schema_sets < MaxSchemaSets
    /\ schema' = s
    /\ table_descriptions' = DescriptionsAfter(table_descriptions, s)
    /\ schema_sets' = schema_sets + 1
    /\ last' = Returned("set_schema")
    /\ UNCHANGED << db_config, connection, metadata, recently_used_tables, manager_vars >>

set_metadata(m) ==
    /\ metadata' = m
    /\ last' = Returned("set_metadata")
    /\ UNCHANGED << schema, db_config, connection, table_descriptions,
                    recently_used_tables, schema_sets, manager_vars >>

\* The moments datetime.now() can return in a call: the clock is read only on the
\* branch for "after" and "since".
ClockReads(user_question) ==
    IF MentionsAfter(Lower(user_question)) THEN Clock ELSE {None}

\* psycopg2.connect is called only when db_config is set; it returns or raises.
ConnectResults(config) == IF config = "None" THEN {TRUE} ELSE BOOLEAN

process_query(user_question) ==
    \E unsafe \in { _is_unsafe_query(user_question) },
       query_analysis \in { _analyze_query(user_question) },
       current_time \in ClockReads(user_question) :
      \E connects \in ConnectResults(db_config) :
        \E out \in { Process(Agent, user_question, connects, current_time, unsafe,
                             query_analysis) } :
            /\ last' = out
            /\ connection' = ConnectionAfter(Agent, out)
            /\ recently_used_tables' = RecentAfter(Agent, out)
            /\ UNCHANGED << schema, db_config, table_descriptions, metadata, schema_sets,
                            manager_vars >>

\* generate_sql builds an agent of its own; from then on the variables describe it.
generate_sql(user_question, s, m) ==
    \E unsafe \in { _is_unsafe_query(user_question) },
       query_analysis \in { _analyze_query(user_question) },
       current_time \in ClockReads(user_question) :
        \E out \in { Process(generate_sql_agent(s, m), user_question, TRUE, current_time,
                             unsafe, query_analysis) } :
            /\ last' = [out EXCEPT !.op = "generate_sql", !.result = generate_sql_result(out)]
            /\ schema_sets' = 0
            /\ \E ag \in { AgentAfter(generate_sql_agent(s, m), out) } :
                  /\ schema' = ag.schema
                  /\ db_config' = ag.db_config
                  /\ connection' = ag.connection
                  /\ table_descriptions' = ag.table_descriptions
                  /\ metadata' = ag.metadata
                  /\ recently_used_tables' = ag.recently_used_tables
            /\ UNCHANGED manager_vars

Next ==
    \/ \E s \in Replacements : set_schema(s)
    \/ \E m \in Metadatas : set_metadata(m)
    \/ \E q \in Questions : process_query(q)
    \/ \E q \in Questions, s \in Schemas \cup {NoSchema}, m \in Metadatas :
          generate_sql(q, s, m)

\* An agent driven through its methods, and the module-level entry point.
Spec == Init /\ [][Next]_vars

\* ------------------------------------- the manager (src/sql_reasoning.py)

\* str.upper().
UpperChar(c) ==
    IF c \in Range(LowerLetters)
    THEN UpperLetters[CHOOSE i \in 1..Len(LowerLetters) : LowerLetters[i] = c]
    ELSE c

Upper(text) == [i \in 1..Len(text) |-> UpperChar(text[i])]

\* str.strip().
Strip(text) ==
    LET inked == { i \in 1..Len(text) : text[i] \notin Whitespace }
    IN  IF inked = {} THEN <<>> ELSE SubSeq(text, SetMin(inked), SetMax(inked))

\* str.startswith.
StartsWith(text, pre) == Len(pre) <= Len(text) /\ SubSeq(text, 1, Len(pre)) = pre

\* The character class [><=!~].
operator_chars == {">", "<", "=", "!", "~"}

TokenKind(c) == IF c \in WordChars THEN "word" ELSE IF c \in operator_chars THEN "op" ELSE "gap"

\* re.findall(r'\b\w+\b|[><=!~]+', text): the maximal runs of word characters and
\* the maximal runs of operator characters, in order.
RECURSIVE FindTokens(_, _, _)
FindTokens(text, i, cur) ==
    IF i > Len(text)
    THEN IF cur = <<>> THEN <<>> ELSE <<cur>>
    ELSE IF TokenKind(text[i]) = "gap"
    THEN (IF cur = <<>> THEN <<>> ELSE <<cur>>) \o FindTokens(text, i + 1, <<>>)
    ELSE IF cur = <<>> \/ TokenKind(cur[1]) = TokenKind(text[i])
    THEN FindTokens(text, i + 1, Append(cur, text[i]))
    ELSE <<cur>> \o FindTokens(text, i + 1, << text[i] >>)

Words(user_input) == FindTokens(Lower(user_input), 1, <<>>)

\* self.tables: a dict table name -> {column name -> declared type}, as a
\* sequence of entries in insertion order.
DbTable(name, columns) == [name |-> name, columns |-> columns]

InTables(tbls, word) == \E n \in 1..Len(tbls) : tbls[n].name = word

\* list(self.tables[table].keys()).
TableCols(tbls, table) ==
    LET t == tbls[CHOOSE n \in 1..Len(tbls) : tbls[n].name = table]
    IN  [j \in 1..Len(t.columns) |-> t.columns[j].name]

direct_sql_prefixes ==
    { <<"S","E","L","E","C","T">>, <<"I","N","S","E","R","T">>, <<"U","P","D","A","T","E">>, <<"D","E","L","E","T","E">>, <<"C","R","E","A","T","E">>, <<"A","L","T","E","R">>, <<"D","R","O","P">> }

intent_keywords ==
    << [intent |-> "SELECT",
        keywords |-> { <<"s","e","l","e","c","t">>, <<"g","e","t">>, <<"s","h","o","w">>, <<"f","i","n","d">>, <<"s","e","a","r","c","h">>, <<"d","i","s","p","l","a","y">>, <<"l","i","s","t">>,
                       <<"q","u","e","r","y">>, <<"v","i","e","w">>, <<"r","e","t","r","i","e","v","e">>, <<"f","e","t","c","h">> }],
       [intent |-> "INSERT",
        keywords |-> { <<"i","n","s","e","r","t">>, <<"a","d","d">>, <<"c","r","e","a","t","e">>, <<"n","e","w">>, <<"r","e","g","i","s","t","e","r">>, <<"s","a","v","e">>, <<"s","t","o","r","e">>,
                       <<"p","u","t">> }],
       [intent |-> "UPDATE",
        keywords |-> { <<"u","p","d","a","t","e">>, <<"c","h","a","n","g","e">>, <<"m","o","d","i","f","y">>, <<"e","d","i","t">>, <<"a","l","t","e","r">>, <<"r","e","p","l","a","c","e">>,
                       <<"s","e","t">> }],
       [intent |-> "DELETE",
        keywords |-> { <<"d","e","l","e","t","e">>, <<"r","e","m","o","v","e">>, <<"d","r","o","p">>, <<"c","l","e","a","r">>, <<"e","r","a","s","e">>, <<"e","l","i","m","i","n","a","t","e">> }] >>

\* The first group with a keyword among the words; SELECT when only a table is
\* named; else None.
_detect_intent(tbls, words) ==
    LET hits == { n \in 1..Len(intent_keywords) :
                    intent_keywords[n].keywords \cap Range(words) # {} }
    IN  IF hits # {} THEN intent_keywords[SetMin(hits)].intent
        ELSE IF \E n \in 1..Len(words) : InTables(tbls, words[n]) THEN "SELECT"
        ELSE "None"

\* Exact matches first; when there is none, plurals and singulars.
_extract_tables(tbls, words) ==
    LET exact == SelectSeq(words, LAMBDA w : InTables(tbls, w))
    IN  IF exact # <<>> THEN exact
        ELSE Flatten([n \in 1..Len(words) |->
                IF EndsWith(words[n], <<"s">>)
                     /\ InTables(tbls, SubSeq(words[n], 1, Len(words[n]) - 1))
                THEN << SubSeq(words[n], 1, Len(words[n]) - 1) >>
                ELSE IF InTables(tbls, words[n] \o <<"s">>)
                THEN << words[n] \o <<"s">> >>
                ELSE <<>>])

\* The words that are columns of the table; ['*'] when there is none or when
\* "all" or "everything" is among the words ('*' itself is never a word).
_extract_columns(tbls, words, table) ==
    IF ~InTables(tbls, table) THEN <<>>
    ELSE LET table_cols == Range(TableCols(tbls, table))
             columns == SelectSeq(words, LAMBDA w : w \in table_cols)
         IN  IF (<<"a","l","l">> \in Range(words)) \/ (<<"e","v","e","r","y","t","h","i","n","g">> \in Range(words))
                  \/ columns = <<>>
             THEN << <<"*">> >>
             ELSE columns

condition_operators ==
    { <<"=">>, <<">">>, <<"<">>, <<">","=">>, <<"<","=">>, <<"!","=">>, <<"l","i","k","e">>, <<"c","o","n","t","a","i","n","s">>, <<"s","t","a","r","t","s">>, <<"e","n","d","s">> }

\* The condition text and the value for one column, operator and operand.
ConditionText(column, op) ==
    IF op \in { <<"c","o","n","t","a","i","n","s">>, <<"s","t","a","r","t","s">>, <<"e","n","d","s">>, <<"l","i","k","e">> }
    THEN column \o <<" ","L","I","K","E"," ","?">>
    ELSE column \o <<" ">> \o op \o <<" ","?">>

ConditionValue(op, operand) ==
    IF op \in { <<"c","o","n","t","a","i","n","s">>, <<"l","i","k","e">> } THEN <<"%">> \o operand \o <<"%">>
    ELSE IF op = <<"s","t","a","r","t","s">> THEN operand \o <<"%">>
    ELSE IF op = <<"e","n","d","s">> THEN <<"%">> \o operand
    ELSE operand

\* The while loop of _extract_conditions from position i (counted from 1): a
\* column followed by an operator takes the next word as its operand.
RECURSIVE ConditionsFrom(_, _, _)
ConditionsFrom(words, table_cols, i) ==
    IF i > Len(words) - 2 THEN <<>>
    ELSE IF words[i] \in table_cols /\ words[i + 1] \in condition_operators
    THEN << [value |-> ConditionValue(words[i + 1], words[i + 2]),
             condition |-> ConditionText(words[i], words[i + 1])] >>
           \o ConditionsFrom(words, table_cols, i + 3)
    ELSE ConditionsFrom(words, table_cols, i + 1)

_extract_conditions(tbls, words, table) ==
    IF ~InTables(tbls, table) THEN <<>>
    ELSE ConditionsFrom(words, Range(TableCols(tbls, table)), 1)

\* The dict parse_user_input returns; a key the dict does not have is None.
Parsed(type, original, query, intent, tables, columns, conditions, values, command) ==
    [ query |-> query, intent |-> intent, tables |-> tables, columns |-> columns,
      type |-> type, original |-> original, conditions |-> conditions,
      values |-> values, command |-> command ]

\* The branch for 'describe_table' needs a word that is a table when no table was
\* extracted, which the exact matching of _extract_tables rules out.
Parse(tbls, user_input) ==
    LET words == Words(user_input)
        tables == _extract_tables(tbls, words)
        found == IF tables = <<>> THEN <<>> ELSE _extract_conditions(tbls, words, tables[1])
    IN  IF \E pre \in direct_sql_prefixes : StartsWith(Upper(Strip(user_input)), pre)
        THEN Parsed("direct_sql", user_input, user_input, "None", None, None, None, None,
                    "None")
        ELSE IF tables # <<>>
        THEN Parsed("nl_query", user_input, None, _detect_intent(tbls, words), tables,
                    _extract_columns(tbls, words, tables[1]),
                    [n \in 1..Len(found) |-> found[n].condition],
                    [n \in 1..Len(found) |-> found[n].value], "None")
        ELSE IF /\ { <<"s","h","o","w">>, <<"l","i","s","t">>, <<"d","e","s","c","r","i","b","e">>, <<"s","c","h","e","m","a">> } \cap Range(words) # {}
                /\ <<"t","a","b","l","e","s">> \in Range(words)
        THEN Parsed("schema_query", user_input, None, "None", None, None, None, None,
                    "list_tables")
        ELSE Parsed("unknown", user_input, None, "None", None, None, None, None, "None")

\* The dict analyze_query returns, without the display text 'details'; a key the
\* dict does not have is None.
Analysis(action, explanation, risk_level, query, params, needs_input, query_base, condition_params) ==
    [ query |-> query, explanation |-> explanation, action |-> action,
      risk_level |-> risk_level, params |-> params, needs_input |-> needs_input,
      query_base |-> query_base, condition_params |-> condition_params ]

\* An explanation with no statement to run.
Unrunnable(action, explanation) ==
    Analysis(action, explanation, "none", None, None, None, None, None)

direct_medium == { <<"U","P","D","A","T","E">>, <<"D","E","L","E","T","E">>, <<"D","R","O","P">>, <<"A","L","T","E","R">> }

WhereText(conditions) ==
    IF conditions # <<>> THEN <<" ","W","H","E","R","E"," ">> \o Join(<<" ","A","N","D"," ">>, conditions) ELSE <<>>

\* A variant of DeleteRisk with the fault of rating every DELETE high.
DeleteRiskAlwaysHigh(conditions) == "high"

\* A variant of UpdateRisk with the two levels exchanged.
UpdateRiskExchanged(conditions) == IF conditions = <<>> THEN "medium" ELSE "high"

\* The risk level of a DELETE, and of an UPDATE that names columns.
DeleteRisk(conditions) == IF conditions = <<>> THEN "critical" ELSE "high"

UpdateRisk(conditions) == IF conditions = <<>> THEN "high" ELSE "medium"

\* The columns an INSERT or UPDATE request names: some, and not the wildcard.
NamesColumns(columns) == columns # <<>> /\ columns # << <<"*">> >>

Analyze(tbls, parsed_query) ==
    LET table == parsed_query.tables[1]
        columns == parsed_query.columns
        conditions == parsed_query.conditions
    IN  IF parsed_query.type = "direct_sql"
        THEN LET query == Strip(parsed_query.query)
                 first_word == Upper(Split(query)[1])
             IN  Analysis(first_word, <<"E","x","e","c","u","t","i","n","g"," ","r","a","w"," ","S","Q","L"," ">> \o first_word \o <<" ","s","t","a","t","e","m","e","n","t">>,
                          IF first_word \in direct_medium THEN "medium" ELSE "low",
                          query, None, None, None, None)
        ELSE IF parsed_query.type = "nl_query"
        THEN IF parsed_query.intent = "None" \/ parsed_query.tables = <<>>
             THEN Unrunnable(<<"U","n","k","n","o","w","n">>, <<"C","o","u","l","d"," ","n","o","t"," ","u","n","d","e","r","s","t","a","n","d"," ","t","h","e"," ","q","u","e","r","y">>)
             ELSE IF parsed_query.intent = "SELECT"
             THEN Analysis(<<"S","E","L","E","C","T">>, <<"R","e","t","r","i","e","v","i","n","g"," ","d","a","t","a"," ","f","r","o","m"," ","'">> \o table \o <<"'">>, "low",
                           <<"S","E","L","E","C","T"," ">> \o Join(<<","," ">>, columns) \o <<" ","F","R","O","M"," ">> \o table
                              \o WhereText(conditions),
                           parsed_query.values, None, None, None)
             ELSE IF parsed_query.intent = "INSERT"
             THEN Analysis(<<"I","N","S","E","R","T">>, <<"A","d","d","i","n","g"," ","n","e","w"," ","r","e","c","o","r","d"," ","t","o"," ","'">> \o table \o <<"'">>, "low", None,
                           None,
                           IF NamesColumns(columns) THEN columns ELSE TableCols(tbls, table),
                           None, None)
             ELSE IF parsed_query.intent = "UPDATE"
             THEN IF NamesColumns(columns)
                  THEN Analysis(<<"U","P","D","A","T","E">>, <<"M","o","d","i","f","y","i","n","g"," ","r","e","c","o","r","d","s"," ","i","n"," ","'">> \o table \o <<"'">>,
                                UpdateRisk(conditions), None, None, columns,
                                <<"U","P","D","A","T","E"," ">> \o table \o <<" ","S","E","T"," ">>
                                   \o Join(<<","," ">>, [n \in 1..Len(columns) |->
                                                     columns[n] \o <<" ","="," ","?">>])
                                   \o WhereText(conditions),
                                parsed_query.values)
                  ELSE Unrunnable(<<"U","P","D","A","T","E">>, <<"C","a","n","n","o","t"," ","u","p","d","a","t","e"," ","t","a","b","l","e"," ","'">> \o table \o <<"'">>)
             ELSE IF parsed_query.intent = "DELETE"
             THEN Analysis(<<"D","E","L","E","T","E">>, <<"R","e","m","o","v","i","n","g"," ","r","e","c","o","r","d","s"," ","f","r","o","m"," ","'">> \o table \o <<"'">>,
                           DeleteRisk(conditions),
                           <<"D","E","L","E","T","E"," ","F","R","O","M"," ">> \o table \o WhereText(conditions),
                           parsed_query.values, None, None, None)
             ELSE Unrunnable(<<"U","n","k","n","o","w","n">>, <<"U","n","s","u","p","p","o","r","t","e","d"," ","o","p","e","r","a","t","i","o","n">>)
        ELSE IF parsed_query.type = "schema_query"
        THEN Unrunnable(<<"S","C","H","E","M","A">>, <<"L","i","s","t","i","n","g"," ","a","l","l"," ","t","a","b","l","e","s"," ","i","n"," ","d","a","t","a","b","a","s","e">>)
        ELSE Unrunnable(<<"U","n","k","n","o","w","n">>, <<"C","o","u","l","d"," ","n","o","t"," ","u","n","d","e","r","s","t","a","n","d"," ","t","h","e"," ","r","e","q","u","e","s","t">>)

\* Tables of a connected database, as self.tables holds them.
people_tables ==
    << DbTable(<<"u","s","e","r","s">>, << Col(<<"i","d">>, "INTEGER", <<>>), Col(<<"n","a","m","e">>, "TEXT", <<>>),
                             Col(<<"a","g","e">>, "INTEGER", <<>>) >>),
       DbTable(<<"o","r","d","e","r","s">>, << Col(<<"i","d">>, "INTEGER", <<>>), Col(<<"t","o","t","a","l">>, "REAL", <<>>) >>) >>

stock_tables ==
    << DbTable(<<"i","t","e","m">>, << Col(<<"i","d">>, "INTEGER", <<>>), Col(<<"n","a","m","e">>, "TEXT", <<>>) >>) >>

ManagerTables == { <<>>, people_tables, stock_tables }

\* What a user types: a verb phrase, an object and a tail, or a statement.
InputVerbs ==
    { <<"r","e","m","o","v","e">>, <<"p","l","e","a","s","e"," ","d","e","l","e","t","e">>, <<"e","r","a","s","e">>, <<"c","h","a","n","g","e">>, <<"m","o","d","i","f","y">>, <<"s","h","o","w">>, <<"a","d","d"," ","n","e","w">>,
      <<"c","o","u","n","t">> }

InputObjects ==
    { <<"u","s","e","r","s">>, <<"u","s","e","r">>, <<"i","t","e","m","s">>, <<"a","l","l"," ","u","s","e","r","s">>, <<"u","s","e","r","s"," ","n","a","m","e">>, <<"u","s","e","r","s"," ","n","a","m","e"," ","a","g","e">> }

InputTails == { <<>>, <<" ","w","h","e","r","e"," ","a","g","e"," ",">"," ","2","5">>, <<" ","w","h","e","r","e"," ","i","d"," ","="," ","3">>, <<" ","n","a","m","e"," ","c","o","n","t","a","i","n","s"," ","b","o","b">> }

Statements ==
    { <<"D","E","L","E","T","E"," ","F","R","O","M"," ","u","s","e","r","s">>, <<"d","r","o","p"," ","t","a","b","l","e"," ","u","s","e","r","s">>, <<"s","e","l","e","c","t"," ","*"," ","f","r","o","m"," ","u","s","e","r","s">>,
      <<"u","p","d","a","t","e"," ","u","s","e","r","s"," ","s","e","t"," ","a","g","e"," ","="," ","1">>, <<"s","h","o","w"," ","t","a","b","l","e","s">>, <<"h","e","l","l","o"," ","t","h","e","r","e">> }

ManagerInputs ==
    { v \o <<" ">> \o o \o t : v \in InputVerbs, o \in InputObjects, t \in InputTails }
        \cup Statements

\* The attributes of a manager with no statement run yet.
Manager(tbls) == [tables |-> tbls, conn |-> "open", history |-> <<>>]

\* The locals of one turn of run_interactive.
NoTurn == [analysis |-> None, pc |-> "input", parsed |-> None, confirm |-> None]

\* A connected manager; self.tables is what the caller finds in it.
InitManager ==
    /\ \E tbls \in ManagerTables : manager = Manager(tbls)
    /\ turn = NoTurn
    /\ IsAgent(QueryGPT(NoSchema, "None"))
    /\ last = Returned("__init__")
    /\ schema_sets = 0

\* parsed_for holds what the call returns for each value self.tables can have.
parse_user_input(user_input) ==
    \E parsed_for \in { [tbls \in ManagerTables |-> Parse(tbls, user_input)] } :
        /\ turn' = [analysis |-> None, pc |-> "parsed",
                    parsed |-> parsed_for[manager.tables], confirm |-> None]
        /\ UNCHANGED << manager, agent_vars, last, schema_sets >>

analyze_query ==
    /\ turn.pc = "parsed"
    /\ turn' = [turn EXCEPT !.pc = "analysed",
                            !.analysis = Analyze(manager.tables, turn.parsed)]
    /\ UNCHANGED << manager, agent_vars, last, schema_sets >>

NextManager ==
    \/ \E user_input \in ManagerInputs : parse_user_input(user_input)
    \/ analyze_query

SpecManager == InitManager /\ [][NextManager]_vars


\* ------------------------------------------------------- run_interactive

\* The number of statements in self.history that the model follows.
MaxHistory == 2

\* What a user types at the prompt of the loop, and at the confirmation prompt.
LoopInputs ==
    { <<"p","l","e","a","s","e"," ","d","e","l","e","t","e"," ","a","l","l"," ","u","s","e","r","s">>, <<"r","e","m","o","v","e"," ","u","s","e","r","s"," ","w","h","e","r","e"," ","a","g","e"," ",">"," ","2","5">>, <<"e","r","a","s","e"," ","u","s","e","r">>,
      <<"c","h","a","n","g","e"," ","u","s","e","r","s"," ","n","a","m","e"," ","w","h","e","r","e"," ","i","d"," ","="," ","3">>, <<"c","h","a","n","g","e"," ","u","s","e","r","s"," ","n","a","m","e">>, <<"m","o","d","i","f","y"," ","a","l","l"," ","u","s","e","r","s">>,
      <<"s","h","o","w"," ","u","s","e","r","s">>, <<"a","d","d"," ","n","e","w"," ","u","s","e","r","s"," ","n","a","m","e">>, <<"D","E","L","E","T","E"," ","F","R","O","M"," ","u","s","e","r","s">>, <<"d","r","o","p"," ","t","a","b","l","e"," ","u","s","e","r","s">>,
      <<"s","e","l","e","c","t"," ","*"," ","f","r","o","m"," ","u","s","e","r","s">>, <<"s","h","o","w"," ","t","a","b","l","e","s">>, <<"h","e","l","l","o"," ","t","h","e","r","e">>, <<"h","i","s","t","o","r","y">>, <<"H","e","l","p">>,
      <<" "," ">>, <<" ","E","X","I","T"," ">> }

Answers == { <<"y">>, <<"Y">>, <<"n">>, <<"c","o","n","f","i","r","m">>, <<"C","O","N","F","I","R","M">>, <<"y","e","s">>, <<"y"," ">>, <<>> }

loop_commands == { <<"h","i","s","t","o","r","y">>, <<"h","e","l","p">>, <<>> }

\* The turn after the input is read: back at the prompt for a command, an empty
\* line or a request that is not understood, else at the confirmation prompt
\* with the request parsed and analysed.
AfterInput(tbls, line) ==
    LET user_input == Strip(line)
    IN  IF Lower(user_input) = <<"e","x","i","t">> THEN [NoTurn EXCEPT !.pc = "exited"]
        ELSE IF Lower(user_input) \in loop_commands THEN NoTurn
        ELSE LET parsed == Parse(tbls, user_input)
             IN  IF parsed.type = "unknown"
                 THEN [NoTurn EXCEPT !.pc = "unknown", !.parsed = parsed]
                 ELSE [NoTurn EXCEPT !.pc = "confirm", !.parsed = parsed,
                                     !.analysis = Analyze(tbls, parsed)]

\* A variant of Confirmed with the fault of taking 'y' for every risk level.
ConfirmedByYes(risk_level, confirm) == Lower(confirm) \in { <<"y">>, <<"c","o","n","f","i","r","m">> }

\* The answer lets the operation through: 'confirm' for the levels high and
\* critical, 'y' for the others, in any letter case.
Confirmed(risk_level, confirm) ==
    IF risk_level \in {"high", "critical"} THEN Lower(confirm) = <<"c","o","n","f","i","r","m">>
    ELSE Lower(confirm) = <<"y">>

\* The statement execute_analyzed_query sends to the database, None when the
\* analysis has none: a schema listing, or no 'query' and no 'needs_input'.
StatementOf(analysis, parsed) ==
    IF analysis.action = <<"S","C","H","E","M","A">> THEN None
    ELSE IF analysis.query # None THEN analysis.query
    ELSE IF analysis.needs_input = None THEN None
    ELSE IF analysis.action = <<"I","N","S","E","R","T">>
    THEN <<"I","N","S","E","R","T"," ","I","N","T","O"," ">> \o parsed.tables[1] \o <<" ","(">>
            \o Join(<<","," ">>, analysis.needs_input) \o <<")"," ","V","A","L","U","E","S"," ","(">>
            \o Join(<<","," ">>, [n \in 1..Len(analysis.needs_input) |-> <<"?">>]) \o <<")">>
    ELSE IF analysis.action = <<"U","P","D","A","T","E">> THEN analysis.query_base
    ELSE None

\* refresh_metadata after a statement: it calls self.get_columns_with_types,
\* which the class does not define, for every table the database holds, so it
\* returns, leaving self.tables empty, only when the database holds none.
RefreshResults(tbls) == IF tbls # <<>> THEN {"raises"} ELSE {"raises", "returns"}

\* The top of the loop: input() and, for a request, parse_user_input and
\* analyze_query up to the confirmation prompt.
read_input(line) ==
    \E turn_for \in { [tbls \in ManagerTables |-> AfterInput(tbls, line)] } :
        /\ turn.pc \in {"input", "unknown", "cancelled", "executed"}
        /\ Len(manager.history) < MaxHistory
        /\ turn' = turn_for[manager.tables]
        /\ UNCHANGED << manager, agent_vars, last, schema_sets >>

\* The confirmation prompt and what follows it: the operation is cancelled, or
\* execute_analyzed_query runs it; sqlite3 accepts the statement or raises
\* sqlite3.Error, and an accepted statement is logged before the refresh.
read_confirm(confirm) ==
    /\ turn.pc = "confirm"
    /\ IF ~Confirmed(turn.analysis.risk_level, confirm)
       THEN /\ turn' = [turn EXCEPT !.pc = "cancelled", !.confirm = confirm]
            /\ UNCHANGED manager
       ELSE LET statement == StatementOf(turn.analysis, turn.parsed)
            IN  IF statement = None
                THEN /\ turn' = [turn EXCEPT !.pc = "executed", !.confirm = confirm]
                     /\ UNCHANGED manager
                ELSE \/ /\ turn' = [turn EXCEPT !.pc = "executed", !.confirm = confirm]
                        /\ UNCHANGED manager
                     \/ \E refresh \in RefreshResults(manager.tables) :
                           /\ turn' = [turn EXCEPT
                                         !.pc = IF refresh = "raises" THEN "crashed"
                                                ELSE "executed",
                                         !.confirm = confirm]
                           /\ manager' = [manager EXCEPT
                                            !.history = Append(@, statement)]
    /\ UNCHANGED << agent_vars, last, schema_sets >>

NextLoop ==
    \/ \E line \in LoopInputs : read_input(line)
    \/ \E confirm \in Answers : read_confirm(confirm)

\* run_interactive on a connected manager.
SpecLoop == InitManager /\ [][NextLoop]_vars
\* ---------------------------------------------------- the limit phrases

\* The largest N of the questions about a limit.
MaxLimit == 11

\* The six phrases of the pattern that precede the number of a limit.
limit_phrases ==
    << <<"t","o","p">>, <<"f","i","r","s","t">>, <<"l","a","s","t">>, <<"l","i","m","i","t"," ","t","o">>, <<"s","h","o","w"," ","o","n","l","y">>, <<"d","i","s","p","l","a","y"," ","o","n","l","y">> >>

\* "<phrase> N users" for every phrase, and "show users limit N".
PhraseQuestion(p, n) == limit_phrases[p] \o <<" ">> \o IntToStr(n) \o <<" ","u","s","e","r","s">>

BareLimitQuestion(n) == <<"s","h","o","w"," ","u","s","e","r","s"," ","l","i","m","i","t"," ">> \o IntToStr(n)

LimitQuestions ==
    { PhraseQuestion(p, n) : p \in 1..Len(limit_phrases), n \in 0..MaxLimit }
        \cup { BareLimitQuestion(n) : n \in 0..MaxLimit }

\* The agent of interactive_cli without a database, asked about limits.
InitLimit ==
    /\ IsAgent(QueryGPT(sample_schema, "None"))
    /\ last = Returned("__init__")
    /\ schema_sets = 0
    /\ NoManager

NextLimit ==
    \/ \E m \in Metadatas : set_metadata(m)
    \/ \E q \in LimitQuestions : process_query(q)

SpecLimit == InitLimit /\ [][NextLimit]_vars

\* ------------------------------------------------------------ properties

\* What an outcome says about the call.
IsCall(o) == o.op = "process_query"

HasRaised(o) == IsCall(o) /\ o.raised # ""

IsRefused(o) == IsCall(o) /\ o.raised = "" /\ ~o.result.safe

IsTranslated(o) == IsCall(o) /\ o.raised = "" /\ o.result.safe

\* The call got as far as the gate, and as far as binding.
ReachedGate(o) == "gate" \in Range(o.ran)

ReachedBinding(o) == "identify" \in Range(o.ran)

LaterStages ==
    {"analyze", "identify", "components", "sql", "explanation", "reasoning", "remember"}

\* w occurs in text between word boundaries: next to it there is no letter, digit
\* or underscore.
WholeWord(text, w) ==
    \E i \in 0..(Len(text) - Len(w)) :
        /\ SubSeq(text, i + 1, i + Len(w)) = w
        /\ i = 0 \/ text[i] \notin WordChars
        /\ i + Len(w) = Len(text) \/ text[i + Len(w) + 1] \notin WordChars

StandaloneKeyword(text) ==
    \E n \in 1..Len(unsafe_keywords) : WholeWord(text, unsafe_keywords[n])

\* The maximal runs of digits of a text.
Numerals(text) ==
    { SubSeq(text, ij[1], ij[2]) : ij \in
        { ij \in (1..Len(text)) \X (1..Len(text)) :
            /\ ij[1] <= ij[2]
            /\ \A m \in ij[1]..ij[2] : text[m] \in DigitSet
            /\ ij[1] = 1 \/ text[ij[1] - 1] \notin DigitSet
            /\ ij[2] = Len(text) \/ text[ij[2] + 1] \notin DigitSet } }

\* N is the one number of the text and a limit phrase and a blank precede it.
PhraseNames(text, n) ==
    /\ Numerals(text) = { IntToStr(n) }
    /\ \E p \in 1..Len(limit_phrases) :
          Contains(text, limit_phrases[p] \o <<" ">> \o IntToStr(n))

\* N is the one number of the text, "limit " precedes it, and the text holds none
\* of the limit phrases.
BareLimitNames(text, n) ==
    /\ Numerals(text) = { IntToStr(n) }
    /\ Contains(text, <<"l","i","m","i","t"," ">> \o IntToStr(n))
    /\ \A p \in 1..Len(limit_phrases) : ~Contains(text, limit_phrases[p])

HasTable(s, table_name) == \E i \in 1..Len(s.tables) : s.tables[i].name = table_name

HasColumn(s, table_name, column_name) ==
    \E i \in 1..Len(ColumnsOf(s, table_name)) :
        ColumnsOf(s, table_name)[i].name = column_name

NoDuplicates(xs) == \A i, j \in 1..Len(xs) : xs[i] = xs[j] => i = j

\* The first n elements of xs.
FirstOf(xs, n) == [i \in 1..(IF Len(xs) < n THEN Len(xs) ELSE n) |-> xs[i]]

\* No table matches the question by exact, partial or description matching.
NoTableMatches(user_question) ==
    MatchedTables(schema, table_descriptions, Lower(user_question)) = <<>>

\* No column name of the schema occurs in the question.
NoColumnMentioned(user_question) ==
    ColumnMentionTables(schema, Lower(user_question)) = <<>>

\* ---------------------------------------------------------------- claims

\* C1 (as stated): every question that holds one of the twelve mutating keywords
\* as a whole word, delimited by whitespace, punctuation or the ends of the text,
\* in any letter case, is refused by process_query: sql is null, safe is false, the
\* explanation is the fixed one, and none of the later stages runs.
C1_StandaloneKeywordIsRefused ==
    (IsCall(last) /\ ReachedGate(last) /\ StandaloneKeyword(Lower(last.question)))
        => /\ IsRefused(last)
           /\ last.result.sql = None
           /\ last.result.explanation = unsafe_explanation
           /\ Range(last.ran) \cap LaterStages = {}

\* C2: a call of process_query that is refused or that raises leaves
\* recently_used_tables as it was, and on one agent no step other than a call that
\* returns safe = true changes it (generate_sql starts a new agent).
C2_OnlySafeCallsWriteRecent ==
    [][ /\ (HasRaised(last') \/ IsRefused(last'))
           => recently_used_tables' = recently_used_tables
        /\ recently_used_tables' # recently_used_tables
           => (IsTranslated(last') \/ last'.op = "generate_sql") ]_vars

\* C2, its case: a call was refused or raised on an agent that remembers tables.
C2_FailedCallWithRecent ==
    /\ HasRaised(last) \/ IsRefused(last)
    /\ recently_used_tables # <<>>

\* C3 (as stated): for a question that matches no unsafe keyword and no unsafe
\* phrase, on an agent with a schema, process_query does not raise and returns a
\* sql text that is not null and ends with ";".
C3_SafeQuestionYieldsStatement ==
    (IsCall(last) /\ ReachedGate(last) /\ ~_is_unsafe_query(last.question))
        => /\ last.raised = ""
           /\ last.result.sql # None
           /\ EndsWith(last.result.sql, <<";">>)

C5_FallbackStillPlans ==
    [][ (IsCall(last') /\ ReachedBinding(last'))
          => /\ last'.components.from # <<>>
             /\ (/\ NoTableMatches(last'.question)
                 /\ recently_used_tables = <<>>
                 /\ NoColumnMentioned(last'.question))
                => /\ IsTranslated(last')
                   /\ last'.components.from = << TableNames(schema)[1] >> ]_vars

\* C6 (as stated): for N >= 1, a question whose text holds "limit N" gets a plan
\* with limit N and a sql text that holds "LIMIT N".
C6_LimitNRoundTrip ==
    \A n \in 1..MaxLimit :
        (IsTranslated(last)
           /\ Numerals(Lower(last.question)) = { IntToStr(n) }
           /\ Contains(Lower(last.question), <<"l","i","m","i","t"," ">> \o IntToStr(n)))
          => /\ last.components.limit = <<n>>
             /\ Contains(last.result.sql, <<"L","I","M","I","T"," ">> \o IntToStr(n))

\* C6 (amended): for N >= 1, a translated question whose one number N follows one
\* of the phrases top, first, last, limit to, show only, display only and a blank
\* gets a plan with limit N and a sql text that ends with "LIMIT N;"; the bare
\* "limit N" is not such a phrase and gets no limit and no LIMIT clause.
C6_LimitPhraseRoundTrip ==
    \A n \in 1..MaxLimit :
        IsTranslated(last)
          => /\ PhraseNames(Lower(last.question), n)
                => /\ last.components.limit = <<n>>
                   /\ EndsWith(last.result.sql, <<"\n","L","I","M","I","T"," ">> \o IntToStr(n) \o <<";">>)
             /\ BareLimitNames(Lower(last.question), n)
                => /\ last.components.limit = <<>>
                   /\ ~Contains(last.result.sql, <<"L","I","M","I","T">>)

\* C6, its case: "limit to N" with the largest N, a number of two digits, was
\* translated.
C6_LimitToLargestTranslated ==
    /\ IsTranslated(last)
    /\ last.question = PhraseQuestion(4, MaxLimit)
    /\ last.components.limit = <<MaxLimit>>

\* C7: recently_used_tables never holds more than 5 names, and after every call of
\* process_query that returns safe = true it is the first 5 of the tables that call
\* bound, whatever it held before.
C7_RecentIsFirstFiveBound ==
    /\ [] (Len(recently_used_tables) <= 5)
    /\ [][ IsTranslated(last') => recently_used_tables' = FirstOf(last'.tables, 5) ]_vars

\* C7, its case: a translated call bound more than 5 tables and the agent
\* remembers exactly 5 of them.
C7_MoreThanFiveBound ==
    /\ IsTranslated(last)
    /\ Len(last.tables) > 5
    /\ Len(recently_used_tables) = 5

\* C8: when tables are remembered from an earlier translation and the next safe
\* question matches no table by exact, partial or description matching, the
\* question is bound to the remembered tables: at most 5, no duplicates, in their
\* order; neither the column scan nor the first declared table is used.
C8_RecencyFallback ==
    [][ (/\ IsCall(last')
         /\ ReachedBinding(last')
         /\ recently_used_tables # <<>>
         /\ NoTableMatches(last'.question))
          => /\ last'.tables = recently_used_tables
             /\ Len(last'.tables) <= 5
             /\ NoDuplicates(last'.tables) ]_vars

\* C8, its case: a translated question that matches no table and names no column
\* is bound to remembered tables that are not the first declared table.
C8_BoundToRemembered ==
    /\ IsTranslated(last)
    /\ NoTableMatches(last.question)
    /\ NoColumnMentioned(last.question)
    /\ last.tables # <<>>
    /\ last.tables # << TableNames(schema)[1] >>

\* C9 (as stated): "How many users do we have?" on a schema with the table users
\* gets intent COUNT, the single select item COUNT(*), the from list [users] and
\* the sql text "SELECT COUNT(*) FROM users;".
C9_HowManyUsersIsCountStar ==
    (IsTranslated(last) /\ last.question = HowManyUsers /\ HasTable(schema, <<"u","s","e","r","s">>))
        => /\ last.analysis.intent = "COUNT"
           /\ last.components.select = << CountAll >>
           /\ last.components.from = << <<"u","s","e","r","s">> >>
           /\ last.result.sql = <<"S","E","L","E","C","T"," ","C","O","U","N","T","(","*",")"," ","F","R","O","M"," ","u","s","e","r","s",";">>

\* C9 (amended): "How many users do we have?" on a schema with the table users is
\* translated with intent COUNT and the from list [users]; its single select item
\* is COUNT over the first declared column c of users under the alias count_c, and
\* COUNT(*) under the alias count only when users declares no column; the sql text
\* is "SELECT", the item, "FROM", "users;" on four lines, the second and the
\* fourth indented by four blanks.
C9_HowManyUsersCountsFirstColumn ==
    (IsCall(last) /\ ReachedBinding(last) /\ last.question = HowManyUsers
       /\ HasTable(schema, <<"u","s","e","r","s">>))
        => LET cols == ColumnsOf(schema, <<"u","s","e","r","s">>)
               c == cols[1].name
           IN  /\ IsTranslated(last)
               /\ last.analysis.intent = "COUNT"
               /\ last.components.from = << <<"u","s","e","r","s">> >>
               /\ Len(last.components.select) = 1
               /\ last.components.select[1].type = "aggregation"
               /\ last.components.select[1].function = <<"C","O","U","N","T">>
               /\ IF cols = <<>>
                  THEN /\ last.components.select[1].column = <<"*">>
                       /\ last.components.select[1].alias = <<"c","o","u","n","t">>
                       /\ last.result.sql = <<"S","E","L","E","C","T","\n"," "," "," "," ","C","O","U","N","T","(","*",")"," ","A","S"," ","c","o","u","n","t","\n","F","R","O","M","\n"," "," "," "," ","u","s","e","r","s",";">>
                  ELSE /\ last.components.select[1].table = <<"u","s","e","r","s">>
                       /\ last.components.select[1].column = c
                       /\ last.components.select[1].alias = <<"c","o","u","n","t","_">> \o c
                       /\ last.result.sql =
                            <<"S","E","L","E","C","T","\n"," "," "," "," ","C","O","U","N","T","(","u","s","e","r","s",".">> \o c \o <<")"," ","A","S"," ","c","o","u","n","t","_">> \o c
                               \o <<"\n","F","R","O","M","\n"," "," "," "," ","u","s","e","r","s",";">>

\* C9, its case: the question was translated on a schema whose table users
\* declares columns.
C9_HowManyUsersTranslated ==
    /\ IsTranslated(last)
    /\ last.question = HowManyUsers
    /\ HasColumn(schema, <<"u","s","e","r","s">>, <<"i","d">>)

\* C10 (as stated): "What are the top 5 most expensive products?" on a schema with
\* products(price) gets limit 5, an order-by on price with direction DESC, and a
\* plain SELECT of the matched columns: no select item is an aggregation.
C10_TopFiveIsPlainSelect ==
    (IsTranslated(last) /\ last.question = TopFiveProducts
       /\ HasColumn(schema, <<"p","r","o","d","u","c","t","s">>, <<"p","r","i","c","e">>))
        => /\ last.components.limit = <<5>>
           /\ Len(last.components.order_by) = 1
           /\ last.components.order_by[1].column = <<"p","r","i","c","e">>
           /\ last.components.order_by[1].direction = <<"D","E","S","C">>
           /\ \A i \in 1..Len(last.components.select) :
                 last.components.select[i].type # "aggregation"

\* ------------------------------------------------------------ the renderer

\* {"relationships": {}}
no_relationships == Relationships(<<>>)

\* One relationship, keyed in the direction opposite to the order of sample_schema.
reverse_metadata == Relationships(<< Rel(<<"o","r","d","e","r","s","_","u","s","e","r","s">>, <<"u","s","e","r","_","i","d">>, <<"i","d">>) >>)

\* Both keys for users and orders, and for products a key with each earlier table.
crossed_metadata ==
    Relationships(<< Rel(<<"o","r","d","e","r","s","_","u","s","e","r","s">>, <<"b","u","y","e","r","_","i","d">>, <<"i","d">>),
                     Rel(<<"u","s","e","r","s","_","o","r","d","e","r","s">>, <<"i","d">>, <<"u","s","e","r","_","i","d">>),
                     Rel(<<"o","r","d","e","r","s","_","p","r","o","d","u","c","t","s">>, <<"p","r","o","d","u","c","t","_","i","d">>, <<"i","d">>),
                     Rel(<<"p","r","o","d","u","c","t","s","_","u","s","e","r","s">>, <<"o","w","n","e","r","_","i","d">>, <<"i","d">>) >>)

RenderMetadatas ==
    { NoMetadata, no_relationships, sample_metadata, reverse_metadata, crossed_metadata }

\* Query components of the shapes _determine_query_components builds: a select
\* list that is never empty, tables in some schema's order, conditions, grouping,
\* ordering (the key "*" comes from ordering a COUNT(*)) and a limit.
PlanSelects ==
    { << Wildcard >>, << CountAll >>,
      << SelectItem("aggregation", <<"A","V","G">>, <<"o","r","d","e","r","s">>, <<"p","r","i","c","e">>, <<"a","v","g","_","p","r","i","c","e">>) >>,
      << SelectItem("column", None, <<"u","s","e","r","s">>, <<"n","a","m","e">>, None),
         SelectItem("column", None, <<"u","s","e","r","s">>, <<"e","m","a","i","l">>, None) >> }

PlanFroms ==
    { << <<"u","s","e","r","s">> >>, << <<"u","s","e","r","s">>, <<"o","r","d","e","r","s">> >>, << <<"o","r","d","e","r","s">>, <<"u","s","e","r","s">> >>,
      << <<"u","s","e","r","s">>, <<"o","r","d","e","r","s">>, <<"p","r","o","d","u","c","t","s">> >> }

PlanWheres ==
    { <<>>, << Condition(<<"u","s","e","r","s">>, <<"n","a","m","e">>, <<"=">>, <<"b","o","b">>) >>,
      << Condition(<<"o","r","d","e","r","s">>, <<"p","r","i","c","e">>, <<">">>, <<"1","0","0">>),
         Condition(<<"u","s","e","r","s">>, <<"e","m","a","i","l">>, <<"L","I","K","E">>, <<"g","m","a","i","l">>) >> }

PlanGroups == { <<>>, << [table |-> <<"u","s","e","r","s">>, column |-> <<"n","a","m","e">>] >> }

PlanOrders ==
    { <<>>, << [table |-> <<"o","r","d","e","r","s">>, column |-> <<"p","r","i","c","e">>, direction |-> <<"D","E","S","C">>] >>,
      << [table |-> <<>>, column |-> <<"*">>, direction |-> <<"A","S","C">>] >> }

PlanLimits == { <<>>, << 5 >> }

Plans ==
    { [ select |-> s, from |-> f, where |-> w, group_by |-> g, order_by |-> o, limit |-> l ] :
        s \in PlanSelects, f \in PlanFroms, w \in PlanWheres, g \in PlanGroups,
        o \in PlanOrders, l \in PlanLimits }

\* The number of _generate_sql calls on one plan that the model follows.
MaxRenders == 2

\* What _determine_query_components left behind when it returned components.
Planned(components) ==
    [ Outcome(<<>>, "", <<>>, NoResult, <<"components">>, NoAnalysis, components.from,
              <<>>, components)
        EXCEPT !.op = "_determine_query_components" ]

\* A variant of Rendered with the fault of keeping query_parts between calls: the
\* text of the call before is still in front of the new one.
RenderedKeepingParts(ag, o) ==
    [ o EXCEPT !.result =
                 [ sql |-> (IF o.op = "_generate_sql" THEN o.result.sql \o <<"\n">> ELSE <<>>)
                             \o _generate_sql(ag.metadata, "SELECT", o.components) ],
               !.ran = @ \o <<"sql">>,
               !.op = "_generate_sql" ]

\* What a call self._generate_sql(query_type, components) leaves behind on agent
\* ag, o being what was there before: the text it returns; query_parts is a local
\* list and the components are only read.
Rendered(ag, o) ==
    [ o EXCEPT !.result = [ sql |-> _generate_sql(ag.metadata, "SELECT", o.components) ],
               !.ran = @ \o <<"sql">>,
               !.op = "_generate_sql" ]

\* An agent with a schema and some metadata, holding components to render.
InitRender ==
    /\ \E m \in RenderMetadatas :
          IsAgent([QueryGPT(sample_schema, "None") EXCEPT !.metadata = m])
    /\ \E components \in Plans : last = Planned(components)
    /\ schema_sets = 0
    /\ NoManager

call_generate_sql ==
    /\ last.op \in {"_determine_query_components", "_generate_sql"}
    /\ Len(last.ran) <= MaxRenders
    /\ last' = Rendered(Agent, last)
    /\ UNCHANGED << agent_vars, schema_sets, manager_vars >>

NextRender == call_generate_sql

SpecRender == InitRender /\ [][NextRender]_vars

\* The text a render left behind, and its lines without the terminator.
IsRendered(o) == o.op = "_generate_sql"

SqlLines(sql) ==
    LET body == IF EndsWith(sql, <<";">>) THEN SubSeq(sql, 1, Len(sql) - 1) ELSE sql
        breaks == { i \in 1..Len(body) : body[i] = "\n" }
        starts == {1} \cup { i + 1 : i \in breaks }
        StartOf(k) == CHOOSE s \in starts : Cardinality({ t \in starts : t < s }) = k - 1
        EndOf(s) == SetMin({ b \in breaks : b >= s } \cup { Len(body) + 1 }) - 1
    IN  [k \in 1..Cardinality(starts) |-> SubSeq(body, StartOf(k), EndOf(StartOf(k)))]

\* The lines of the text that join table curr.
JoinLines(sql, curr) ==
    SelectSeq(SqlLines(sql), LAMBDA l : Contains(l, <<"J","O","I","N"," ">> \o curr \o <<" ">>))

\* The join predicate the probing rule fixes for the table at position i: of the
\* earlier tables, the first one with a forward or a reverse key decides, and its
\* forward key goes before its reverse key.
ProbedPredicate(relationships, from_tables, i) ==
    LET curr == from_tables[i]
        Keyed(p) == \/ HasKey(relationships, from_tables[p] \o <<"_">> \o curr)
                    \/ HasKey(relationships, curr \o <<"_">> \o from_tables[p])
        p == CHOOSE n \in 1..(i - 1) : Keyed(n) /\ \A k \in 1..(n - 1) : ~Keyed(k)
        prev == from_tables[p]
    IN  IF HasKey(relationships, prev \o <<"_">> \o curr)
        THEN LET rel == Lookup(relationships, prev \o <<"_">> \o curr)
             IN  prev \o <<".">> \o rel.from_column \o <<" ","="," ">> \o curr \o <<".">> \o rel.to_column
        ELSE LET rel == Lookup(relationships, curr \o <<"_">> \o prev)
             IN  curr \o <<".">> \o rel.from_column \o <<" ","="," ">> \o prev \o <<".">> \o rel.to_column

HasProbeHit(relationships, from_tables, i) ==
    \E p \in 1..(i - 1) :
        \/ HasKey(relationships, from_tables[p] \o <<"_">> \o from_tables[i])
        \/ HasKey(relationships, from_tables[i] \o <<"_">> \o from_tables[p])

\* C11: when the components name more than one table and the metadata holds
\* relationships, every table after the first that has a key with an earlier
\* table is joined by exactly one line, `JOIN curr ON <predicate>`, where the
\* predicate comes from the first earlier table with a key, forward key before
\* reverse key; and for users then orders with users_orders = {id, user_id} the
\* text contains `users.id = orders.user_id`.
C11_JoinFollowsFirstHit ==
    (IsRendered(last) /\ Len(last.components.from) > 1 /\ metadata.has_relationships)
        => LET from_tables == last.components.from
               sql == last.result.sql
           IN  /\ \A i \in 2..Len(from_tables) :
                     HasProbeHit(metadata.relationships, from_tables, i)
                        => JoinLines(sql, from_tables[i])
                             = << <<" "," "," "," ","J","O","I","N"," ">> \o from_tables[i] \o <<" ","O","N"," ">>
                                    \o ProbedPredicate(metadata.relationships, from_tables, i) >>
               /\ ( /\ SubSeq(from_tables, 1, 2) = << <<"u","s","e","r","s">>, <<"o","r","d","e","r","s">> >>
                    /\ HasKey(metadata.relationships, <<"u","s","e","r","s","_","o","r","d","e","r","s">>)
                    /\ Lookup(metadata.relationships, <<"u","s","e","r","s","_","o","r","d","e","r","s">>)
                         = Rel(<<"u","s","e","r","s","_","o","r","d","e","r","s">>, <<"i","d">>, <<"u","s","e","r","_","i","d">>) )
                     => Contains(sql, <<"u","s","e","r","s",".","i","d"," ","="," ","o","r","d","e","r","s",".","u","s","e","r","_","i","d">>)

\* C11, its case: three tables rendered with both keys present for users and
\* orders, and products keyed with both earlier tables.
C11_ThreeTablesJoined ==
    /\ IsRendered(last)
    /\ last.components.from = << <<"u","s","e","r","s">>, <<"o","r","d","e","r","s">>, <<"p","r","o","d","u","c","t","s">> >>
    /\ metadata = crossed_metadata
    /\ Contains(last.result.sql, <<"J","O","I","N"," ","o","r","d","e","r","s"," ","O","N"," ","u","s","e","r","s",".","i","d"," ","="," ","o","r","d","e","r","s",".","u","s","e","r","_","i","d">>)
    /\ Contains(last.result.sql, <<"J","O","I","N"," ","p","r","o","d","u","c","t","s"," ","O","N"," ","p","r","o","d","u","c","t","s",".","o","w","n","e","r","_","i","d"," ","="," ","u","s","e","r","s",".","i","d">>)

Headers(sql) == SelectSeq(SqlLines(sql), LAMBDA l : l # <<>> /\ l[1] # " ")

\* The clause headers the components call for, in the fixed order.
ExpectedHeaders(components) ==
    << <<"S","E","L","E","C","T">>, <<"F","R","O","M">> >>
        \o (IF components.where # <<>> THEN << <<"W","H","E","R","E">> >> ELSE <<>>)
        \o (IF components.group_by # <<>> THEN << <<"G","R","O","U","P"," ","B","Y">> >> ELSE <<>>)
        \o (IF components.order_by # <<>> THEN << <<"O","R","D","E","R"," ","B","Y">> >> ELSE <<>>)
        \o (IF components.limit # <<>>
            THEN << <<"L","I","M","I","T"," ">> \o IntToStr(components.limit[1]) >> ELSE <<>>)

\* The indented lines that follow the header at position k of the text's lines.
RECURSIVE SectionSize(_, _)
SectionSize(lines, k) ==
    IF k >= Len(lines) \/ lines[k + 1] = <<>> \/ lines[k + 1][1] # " " THEN 0
    ELSE 1 + SectionSize(lines, k + 1)

\* C13: the rendered text holds the clauses SELECT, FROM, WHERE, GROUP BY,
\* ORDER BY, LIMIT in that order, SELECT and FROM always, each other clause
\* exactly when its component is not empty (LIMIT when the limit is not None);
\* the FROM clause holds one line per table (the first table and one join per
\* further table); and the text ends with ";".
C13_ClausesInFixedOrder ==
    IsRendered(last)
        => LET sql == last.result.sql
               lines == SqlLines(sql)
           IN  /\ Headers(sql) = ExpectedHeaders(last.components)
               /\ lines[1] = <<"S","E","L","E","C","T">>
               /\ SectionSize(lines, 1) = Len(last.components.select)
               /\ lines[2 + Len(last.components.select)] = <<"F","R","O","M">>
               /\ SectionSize(lines, 2 + Len(last.components.select))
                    = Len(last.components.from)
               /\ EndsWith(sql, <<";">>)
               /\ ~Contains(SubSeq(sql, 1, Len(sql) - 1), <<";">>)

\* C13, its case: components with every clause and two joins have been rendered.
C13_EveryClauseRendered ==
    /\ IsRendered(last)
    /\ Len(last.components.from) = 3
    /\ last.components.where # <<>>
    /\ last.components.group_by # <<>>
    /\ last.components.order_by # <<>>
    /\ last.components.limit # <<>>
    /\ Len(Headers(last.result.sql)) = 6

\* ------------------------------------------------------------- the manager

\* The turn holds the analysis of a natural-language request with this intent.
AnalysedRequest(intent) ==
    /\ turn.pc = "analysed"
    /\ turn.parsed.type = "nl_query"
    /\ turn.parsed.intent = intent
    /\ turn.parsed.tables # <<>>

\* C14: a natural-language request with intent DELETE on a known table is rated
\* high when a condition was extracted from it and critical when none was.
C14_DeleteRisk ==
    AnalysedRequest("DELETE")
        => turn.analysis.risk_level
             = (IF Len(turn.parsed.conditions) >= 1 THEN "high" ELSE "critical")

\* C14, its case: a DELETE request without a condition has been rated critical,
\* on a table found through its singular.
C14_DeleteAllRated ==
    /\ AnalysedRequest("DELETE")
    /\ turn.parsed.original = <<"e","r","a","s","e"," ","u","s","e","r">>
    /\ turn.parsed.tables = << <<"u","s","e","r","s">> >>
    /\ turn.analysis.risk_level = "critical"
    /\ turn.analysis.query = <<"D","E","L","E","T","E"," ","F","R","O","M"," ","u","s","e","r","s">>

\* C15 as stated: a natural-language request with intent UPDATE on a known table
\* is rated medium when a condition was extracted and high when none was,
\* whatever columns it names.
C15_UpdateRiskWhateverColumns ==
    AnalysedRequest("UPDATE")
        => turn.analysis.risk_level
             = (IF Len(turn.parsed.conditions) >= 1 THEN "medium" ELSE "high")

\* C15, amended: an UPDATE request whose words name at least one column of the
\* table, and neither "all" nor "everything", is rated medium with a condition
\* and high without one; any other UPDATE request (columns = ['*']) is rated
\* none, with or without a condition, and gets no statement to run.
C15_UpdateRiskWhenColumnsNamed ==
    AnalysedRequest("UPDATE")
        => IF turn.parsed.columns # << <<"*">> >>
           THEN /\ turn.analysis.risk_level
                     = (IF Len(turn.parsed.conditions) >= 1 THEN "medium" ELSE "high")
                /\ turn.analysis.needs_input = turn.parsed.columns
                /\ turn.analysis.query_base # None
           ELSE /\ turn.analysis.risk_level = "none"
                /\ turn.analysis.query = None
                /\ turn.analysis.query_base = None
                /\ turn.analysis.needs_input = None

\* C15, its case: an UPDATE request naming a column, with a condition, has been
\* rated medium.
C15_UpdateWithConditionRated ==
    /\ AnalysedRequest("UPDATE")
    /\ turn.parsed.original = <<"c","h","a","n","g","e"," ","u","s","e","r","s"," ","n","a","m","e"," ","w","h","e","r","e"," ","i","d"," ","="," ","3">>
    /\ turn.analysis.risk_level = "medium"
    /\ turn.analysis.query_base = <<"U","P","D","A","T","E"," ","u","s","e","r","s"," ","S","E","T"," ","n","a","m","e"," ","="," ","?",","," ","i","d"," ","="," ","?"," ","W","H","E","R","E"," ","i","d"," ","="," ","?">>

\* ---------------------------------------------------------- the connection

\* The last call was process_query on the agent and got past the schema check.
CalledWithSchema == last.op = "process_query" /\ last.raised # "ValueError"

IntentPhrases ==
    { <<"h","o","w"," ","m","a","n","y">>, <<"c","o","u","n","t"," ","o","f">>, <<"a","v","e","r","a","g","e">>, <<"t","y","p","i","c","a","l">>, <<"t","o","t","a","l">>, <<"c","o","m","b","i","n","e","d">>,
      <<"h","i","g","h","e","s","t">>, <<"m","o","s","t">>, <<"l","o","w","e","s","t">>, <<"l","e","a","s","t">>, <<"u","n","i","q","u","e">>, <<"d","i","f","f","e","r","e","n","t">>,
      <<"r","e","c","e","n","t">>, <<"c","h","e","a","p">> }

\* Questions holding two of the phrases, in either order.
IntentQuestions ==
    { <<"S","h","o","w"," ">> \o a \o <<" ","a","n","d"," ">> \o b \o <<" ","P","r","i","c","e">> : a \in IntentPhrases, b \in IntentPhrases }

\* What _analyze_query left behind.
Analysed(question) ==
    [ Outcome(question, "", <<>>, NoResult, <<"analyze">>, _analyze_query(question),
              <<>>, <<>>, NoComponents)
        EXCEPT !.op = "_analyze_query" ]

InitIntent ==
    /\ IsAgent(QueryGPT(sample_schema, "None"))
    /\ last = Returned("__init__")
    /\ schema_sets = 0
    /\ NoManager

call_analyze_query(question) ==
    \E out \in { Analysed(question) } :
        /\ last' = out
        /\ UNCHANGED << agent_vars, schema_sets, manager_vars >>

NextIntent == \E question \in IntentQuestions : call_analyze_query(question)

SpecIntent == InitIntent /\ [][NextIntent]_vars

\* The groups in the order the claim gives, each with the plain phrases whose
\* occurrence in the text makes one of the group's patterns match (a pattern
\* `a.*b` of a group matches only where the group's plain phrase a or b occurs).
PriorityGroups ==
    << [intent |-> "COUNT", phrases |->
          { <<"h","o","w"," ","m","a","n","y">>, <<"n","u","m","b","e","r"," ","o","f">>, <<"c","o","u","n","t"," ","o","f">>, <<"t","o","t","a","l"," ","n","u","m","b","e","r">>, <<"w","h","a","t"," ","i","s"," ","t","h","e"," ","c","o","u","n","t">> }],
       [intent |-> "AVERAGE", phrases |-> { <<"a","v","e","r","a","g","e">>, <<"a","v","g">>, <<"m","e","a","n">>, <<"t","y","p","i","c","a","l">> }],
       [intent |-> "SUM", phrases |-> { <<"s","u","m">>, <<"t","o","t","a","l">>, <<"a","d","d"," ","u","p">>, <<"c","o","m","b","i","n","e","d">> }],
       [intent |-> "MAX", phrases |->
          { <<"m","a","x","i","m","u","m">>, <<"m","a","x">>, <<"h","i","g","h","e","s","t">>, <<"l","a","r","g","e","s","t">>, <<"m","o","s","t">> }],
       [intent |-> "MIN", phrases |->
          { <<"m","i","n","i","m","u","m">>, <<"m","i","n">>, <<"l","o","w","e","s","t">>, <<"s","m","a","l","l","e","s","t">>, <<"l","e","a","s","t">> }],
       [intent |-> "DISTINCT", phrases |-> { <<"u","n","i","q","u","e">>, <<"d","i","s","t","i","n","c","t">>, <<"d","i","f","f","e","r","e","n","t">> }] >>

GroupOccurs(n, text) == \E phrase \in PriorityGroups[n].phrases : Contains(text, phrase)

IsAnalysed(o) == o.op = "_analyze_query"

\* C17: the intent is that of the first group, in the order COUNT, AVERAGE, SUM,
\* MAX, MIN, DISTINCT, with a phrase in the lower-cased text, and SELECT when no
\* group has one; a text with phrases of two groups gets the earlier group's.
C17_FirstGroupInPriorityOrderWins ==
    IsAnalysed(last) =>
        LET text == Lower(last.question)
        IN  /\ \A n \in 1..Len(PriorityGroups) :
                  /\ GroupOccurs(n, text)
                  /\ \A k \in 1..(n - 1) : ~GroupOccurs(k, text)
                  => last.analysis.intent = PriorityGroups[n].intent
            /\ (\A n \in 1..Len(PriorityGroups) : ~GroupOccurs(n, text))
                  => last.analysis.intent = "SELECT"

\* C17, its case: a text whose first phrase is of a later group (MIN) and whose
\* second is of an earlier one (AVERAGE) has been classified AVERAGE.
C17_EarlierGroupLaterInText ==
    /\ IsAnalysed(last)
    /\ last.question = <<"S","h","o","w"," ","l","o","w","e","s","t"," ","a","n","d"," ","t","y","p","i","c","a","l"," ","P","r","i","c","e">>
    /\ last.analysis.intent = "AVERAGE"

\* ------------------------------------------------------ the gate's matching

\* Questions in which an action word stands inside a longer word, alone as a
\* word, or not at all.
GateQuestions ==
    { <<"e","x","c","h","a","n","g","e"," ","t","h","e"," ","r","a","t","e","s">>, <<"I","n","t","e","r","c","h","a","n","g","e"," ","a","l","l"," ","u","s","e","r","s">>, <<"s","h","o","w"," ","b","a","c","k","d","r","o","p"," ","t","h","e"," ","u","s","e","r","s">>,
      <<"u","n","d","e","l","e","t","e"," ","t","h","e"," ","o","r","d","e","r","s">>, <<"s","h","o","w"," ","u","n","d","e","l","e","t","e","d"," ","u","s","e","r","s">>, <<"l","i","s","t"," ","u","p","d","a","t","e","d"," ","o","r","d","e","r","s">>,
      <<"s","h","o","w"," ","d","r","o","p","d","o","w","n"," ","u","s","e","r","s">>, <<"c","h","a","n","g","e"," ","t","h","e"," ","u","s","e","r","s">>, <<"d","e","l","e","t","e"," ","a","l","l"," ","o","r","d","e","r","s">>,
      <<"a","d","d"," ","a"," ","n","e","w"," ","u","s","e","r">>, <<"p","a","d","d"," ","n","e","w"," ","u","s","e","r","s">>, <<"l","i","s","t"," ","u","s","e","r","s">>, <<"s","h","o","w"," ","o","r","d","e","r","s">> }

NextGate == \E q \in GateQuestions : process_query(q)

\* An agent asked the gate's questions.
SpecGate == Init /\ [][NextGate]_vars

\* The words the gate looks for: the keywords and the first word of each pattern.
ActionWords == Range(unsafe_keywords) \cup { <<"a","d","d">>, <<"c","h","a","n","g","e">> }

\* The words of a text: its maximal runs of word characters.
WordsOf(text) ==
    { SubSeq(text, p[1], p[2]) :
        p \in { q \in (1..Len(text)) \X (1..Len(text)) :
                  /\ q[1] <= q[2]
                  /\ \A m \in q[1]..q[2] : text[m] \in WordChars
                  /\ q[1] > 1 => text[q[1] - 1] \notin WordChars
                  /\ q[2] < Len(text) => text[q[2] + 1] \notin WordChars } }

\* The text holds an action word inside a longer word, and none as a word.
OnlyInsideLongerWords(text) ==
    /\ WordsOf(text) \cap ActionWords = {}
    /\ \E w \in ActionWords : Contains(text, w)

\* C18: a question in which the action words occur only inside longer words is
\* not classified as unsafe.
C18_GateMatchesWholeWordsOnly ==
    IsCall(last) /\ ReachedGate(last) /\ OnlyInsideLongerWords(Lower(last.question))
        => IsTranslated(last) \/ HasRaised(last)

\* ------------------------------------------------------ the where conditions

\* Questions with the date words and with the comparison phrases.
WhereQuestions ==
    { <<"U","s","e","r","s"," ","c","r","e","a","t","e","d"," ","A","F","T","E","R">>, <<"o","r","d","e","r","s"," ","s","i","n","c","e"," ","y","e","s","t","e","r","d","a","y">>, <<"u","s","e","r","s"," ","c","r","e","a","t","e","d"," ","b","e","f","o","r","e">>,
      <<"o","r","d","e","r","s"," ","w","h","e","r","e"," ","p","r","i","c","e"," ","i","s"," ","5">>, <<"o","r","d","e","r","s"," ","w","h","e","r","e"," ","p","r","i","c","e"," ","e","q","u","a","l","s"," ","7">>,
      <<"o","r","d","e","r","s"," ","w","h","e","r","e"," ","p","r","i","c","e"," ","="," ","7">>, <<"o","r","d","e","r","s"," ","w","h","e","r","e"," ","p","r","i","c","e"," ","g","r","e","a","t","e","r"," ","t","h","a","n"," ","1","0","0">>,
      <<"o","r","d","e","r","s"," ","w","h","e","r","e"," ","p","r","i","c","e"," ","m","o","r","e"," ","t","h","a","n"," ","1","0","0">>, <<"o","r","d","e","r","s"," ","w","h","e","r","e"," ","p","r","i","c","e"," ",">"," ","1","0","0">>,
      <<"o","r","d","e","r","s"," ","w","h","e","r","e"," ","p","r","i","c","e"," ","l","e","s","s"," ","t","h","a","n"," ","3">>, <<"o","r","d","e","r","s"," ","w","h","e","r","e"," ","p","r","i","c","e"," ","f","e","w","e","r"," ","t","h","a","n"," ","3">>,
      <<"o","r","d","e","r","s"," ","w","h","e","r","e"," ","p","r","i","c","e"," ","<"," ","3">>, <<"o","r","d","e","r","s"," ","w","h","e","r","e"," ","q","u","a","n","t","i","t","y"," ","a","f","t","e","r"," ","5">>, <<"l","i","s","t"," ","o","r","d","e","r","s">> }

NextWhere == \E q \in WhereQuestions : process_query(q)

\* An agent asked the questions with conditions.
SpecWhere == Init /\ [][NextWhere]_vars

\* The call bound columns: it got past the gate and through step 2.
HasBound(o) == IsCall(o) /\ "identify" \in Range(o.ran)

\* The plan has a condition on this bound column with this operator and a value
\* of the clock.
HasClockCondition(o, col, operator) ==
    \E n \in 1..Len(o.components.where) :
        /\ o.components.where[n].table = col.table
        /\ o.components.where[n].column = col.column
        /\ o.components.where[n].operator = operator
        /\ o.components.where[n].value \in Clock

\* C19: for a bound column of a date/time type, a safe question with "before"
\* and neither "after" nor "since" gets a condition on the column with operator
\* '<' and the current timestamp; one with "after" or "since" gets a condition
\* with operator '>' and the current timestamp.
C19_TimeWordsGiveClockConditions ==
    HasBound(last) =>
        \A n \in 1..Len(last.columns) :
            LET col == last.columns[n]
                text == Lower(last.question)
                after == Contains(text, <<"a","f","t","e","r">>) \/ Contains(text, <<"s","i","n","c","e">>)
            IN  col.data_type \in {"timestamp", "date", "datetime"} =>
                  /\ after => IsTranslated(last) /\ HasClockCondition(last, col, <<">">>)
                  /\ Contains(text, <<"b","e","f","o","r","e">>) /\ ~after
                        => IsTranslated(last) /\ HasClockCondition(last, col, <<"<">>)

\* The phrases of the claim for a column: `col is X`, `col equals X`, `col = X`;
\* `col greater than N`, `col more than N`, `col > N`; `col less than N`,
\* `col fewer than N`, `col < N`.
ClaimedPhrases(col_name, operator) ==
    CASE operator = <<"=">> ->
           << << Lit(col_name), Ws, Lit(<<"i","s">>), Ws, WordRun >>,
              << Lit(col_name), Ws, Lit(<<"e","q","u","a","l","s">>), Ws, WordRun >>,
              << Lit(col_name), Ws, Lit(<<"=">>), Ws, WordRun >> >>
      [] operator = <<">">> ->
           << << Lit(col_name), Ws, Lit(<<"g","r","e","a","t","e","r">>), Ws, Lit(<<"t","h","a","n">>), Ws, Digits >>,
              << Lit(col_name), Ws, Lit(<<"m","o","r","e">>), Ws, Lit(<<"t","h","a","n">>), Ws, Digits >>,
              << Lit(col_name), Ws, Lit(<<">">>), Ws, Digits >> >>
      [] OTHER ->
           << << Lit(col_name), Ws, Lit(<<"l","e","s","s">>), Ws, Lit(<<"t","h","a","n">>), Ws, Digits >>,
              << Lit(col_name), Ws, Lit(<<"f","e","w","e","r">>), Ws, Lit(<<"t","h","a","n">>), Ws, Digits >>,
              << Lit(col_name), Ws, Lit(<<"<">>), Ws, Digits >> >>

HasPhrase(text, column, operator) ==
    SearchAny(ClaimedPhrases(Lower(column), operator), text)

\* C20: a condition with operator '=' comes only from an equality phrase on its
\* column, and a column whose only phrase in the text is a greater-than phrase
\* (a less-than phrase) gets only conditions with operator '>' ('<').
C20_PhrasesGiveTheirOperatorOnly ==
    IsTranslated(last) =>
        \A n \in 1..Len(last.components.where) :
            LET c == last.components.where[n]
                text == Lower(last.question)
            IN  c.value \notin Clock /\ c.operator \in { <<"=">>, <<">">>, <<"<">> }
                    => HasPhrase(text, c.column, c.operator)

\* ------------------------------------------------------------- the grouping

\* Questions with and without a grouping word, on one table and on two.
GroupQuestions ==
    { <<"a","v","e","r","a","g","e"," ","p","r","i","c","e"," ","p","e","r"," ","c","a","t","e","g","o","r","y">>, <<"h","o","w"," ","m","a","n","y"," ","u","s","e","r","s"," ","p","e","r"," ","o","r","d","e","r","s">>,
      <<"A","v","e","r","a","g","e"," ","p","r","i","c","e"," ","f","o","r"," ","e","a","c","h"," ","o","r","d","e","r","s"," ","a","n","d"," ","p","r","o","d","u","c","t","s">>, <<"s","h","o","w"," ","u","s","e","r","s"," ","b","y"," ","r","o","l","e">>,
      <<"h","i","g","h","e","s","t"," ","p","r","i","c","e"," ","b","y"," ","p","r","o","d","u","c","t","s">>, <<"h","o","w"," ","m","a","n","y"," ","i","d"," ","b","y"," ","u","s","e","r","s"," ","a","n","d"," ","o","r","d","e","r","s">>,
      <<"t","o","t","a","l"," ","q","u","a","n","t","i","t","y"," ","p","e","r"," ","o","r","d","e","r","s">>, <<"a","v","e","r","a","g","e"," ","p","r","i","c","e">>, <<"l","i","s","t"," ","u","s","e","r","s">>,
      <<"l","o","w","e","s","t"," ","s","t","o","c","k"," ","f","o","r"," ","e","a","c","h"," ","p","r","o","d","u","c","t","s">>, <<"h","o","w"," ","m","a","n","y"," ","o","r","d","e","r","s">>, <<"c","o","u","n","t"," ","o","f"," ","r","o","w","s"," ","p","e","r"," ","t","h","i","n","g">> }

NextGroup == \E q \in GroupQuestions : process_query(q)

\* An agent asked the questions with grouping.
SpecGroup == Init /\ [][NextGroup]_vars

\* The (table, column) pairs of the plan's aggregation select items, of its
\* group_by entries and of the bound columns.
AggregationTargets(o) ==
    { << o.components.select[i].table, o.components.select[i].column >> :
        i \in { k \in 1..Len(o.components.select) :
                  o.components.select[k].type = "aggregation" } }

Grouped(o) ==
    { << o.components.group_by[i].table, o.components.group_by[i].column >> :
        i \in 1..Len(o.components.group_by) }

BoundColumns(o) == { << o.columns[i].table, o.columns[i].column >> : i \in 1..Len(o.columns) }

\* C21: in every plan, no column is both the target of an aggregation select
\* item and an entry of group_by.
C21_AggregatedColumnNotGrouped ==
    IsTranslated(last) => AggregationTargets(last) \cap Grouped(last) = {}

\* C21, its case: a plan with an aggregation item and a non-empty group_by whose
\* bound columns hold the aggregation target.
C21_GroupedAggregatePlanned ==
    /\ IsTranslated(last)
    /\ last.analysis.has_grouping
    /\ AggregationTargets(last) # {}
    /\ AggregationTargets(last) \subseteq BoundColumns(last)
    /\ Grouped(last) # {}

\* C22: when has_grouping is true, every bound (table, column) that is not the
\* aggregation target is in group_by, also one of another table with the name of
\* the aggregated column.
C22_EveryOtherBoundColumnGrouped ==
    IsTranslated(last) /\ last.analysis.has_grouping
        => BoundColumns(last) \ AggregationTargets(last) \subseteq Grouped(last)

\* ----------------------------------------------------- the schema in force

\* The (table, column) pairs and the table names of a schema.
SchemaColumns(s) ==
    UNION { { << s.tables[i].name, s.tables[i].columns[j].name >> :
                j \in 1..Len(s.tables[i].columns) } : i \in 1..Len(s.tables) }

SchemaTables(s) == { s.tables[i].name : i \in 1..Len(s.tables) }

\* Questions with conditions, and questions that name no table of one schema or
\* of the other.
RebindQuestions ==
    { <<"o","r","d","e","r","s"," ","w","h","e","r","e"," ","p","r","i","c","e"," ",">"," ","1","0","0">>, <<"u","s","e","r","s"," ","w","i","t","h"," ","n","a","m","e"," ","l","i","k","e"," ","b","o","b">>, <<"l","i","s","t"," ","u","s","e","r","s">>,
      <<"p","r","o","d","u","c","t","s"," ","w","h","e","r","e"," ","s","t","o","c","k"," ","l","e","s","s"," ","t","h","a","n"," ","3">>, <<"s","h","o","w"," ","e","v","e","r","y","t","h","i","n","g">>, <<"a","n","y","t","h","i","n","g"," ","w","h","e","r","e"," ","i","d"," ","i","s"," ","7">>,
      <<"l","i","s","t"," ","o","r","d","e","r","s">>, <<"u","s","e","r","s"," ","c","r","e","a","t","e","d"," ","s","i","n","c","e"," ","m","o","n","d","a","y">>, <<"w","h","i","c","h"," ","w","i","t","h"," ","e","m","a","i","l"," ","c","o","n","t","a","i","n","s"," ","g","m","a","i","l">>,
      <<"o","r","d","e","r","s"," ","p","r","i","c","e"," ","i","s"," ","5">> }

NextRebind ==
    \/ \E s \in Replacements : set_schema(s)
    \/ \E q \in RebindQuestions : process_query(q)

\* An agent whose schema is replaced between its questions.
SpecRebind == Init /\ [][NextRebind]_vars

\* C23: each where condition of a plan is on a (table, column) of the schema the
\* agent holds, and a plan has where conditions only when the analysis has
\* has_conditions.
C23_ConditionsOnSchemaColumns ==
    IsTranslated(last) =>
        /\ \A n \in 1..Len(last.components.where) :
              << last.components.where[n].table, last.components.where[n].column >>
                  \in SchemaColumns(schema)
        /\ last.components.where # <<>> => last.analysis.has_conditions

\* C23, its case: after a set_schema, a plan with where conditions.
C23_ConditionsAfterRebinding ==
    /\ IsTranslated(last)
    /\ schema_sets > 0
    /\ last.components.where # <<>>
    /\ recently_used_tables # <<>>

\* C28: every table of a plan's from list is a table of the schema the agent
\* holds at the call, also when the list comes from recently_used_tables.
C28_PlanTablesOfCurrentSchema ==
    IsTranslated(last) => Range(last.components.from) \subseteq SchemaTables(schema)

\* -------------------------------------------------------- the LIKE operands

\* Questions with the LIKE phrases on text columns, with words and with digits.
LikeQuestions ==
    { <<"u","s","e","r","s"," ","w","i","t","h"," ","n","a","m","e"," ","l","i","k","e"," ","b","o","b">>, <<"u","s","e","r","s"," ","w","h","e","r","e"," ","n","a","m","e"," ","l","i","k","e"," ","1","2","3">>,
      <<"u","s","e","r","s"," ","w","h","e","r","e"," ","e","m","a","i","l"," ","c","o","n","t","a","i","n","s"," ","g","m","a","i","l">>, <<"u","s","e","r","s"," ","w","h","e","r","e"," ","e","m","a","i","l"," ","l","i","k","e"," ","y","a","h","o","o">>,
      <<"u","s","e","r","s"," ","w","h","e","r","e"," ","n","a","m","e"," ","m","a","t","c","h","e","s"," ","a","l">>, <<"p","r","o","d","u","c","t","s"," ","w","h","e","r","e"," ","n","a","m","e"," ","i","s"," ","c","h","a","i","r">>,
      <<"p","r","o","d","u","c","t","s"," ","w","h","e","r","e"," ","p","r","i","c","e"," ","i","s"," ","5">>, <<"o","r","d","e","r","s"," ","w","h","e","r","e"," ","p","r","i","c","e"," ",">"," ","1","0","0">>, <<"l","i","s","t"," ","u","s","e","r","s">>,
      <<"U","s","e","r","s"," ","w","h","e","r","e"," ","r","o","l","e"," ","c","o","n","t","a","i","n","s"," ","a","d","m","i","n">>, <<"u","s","e","r","s"," ","s","i","n","c","e"," ","m","o","n","d","a","y">> }

NextLike == \E q \in LikeQuestions : process_query(q)

\* An agent asked the questions with LIKE phrases.
SpecLike == Init /\ [][NextLike]_vars

\* The value of a condition as the question gave it, without wildcards.
Bare(value) == SelectSeq(value, LAMBDA c : c # "%")

AllDigits(value) == value # <<>> /\ \A i \in 1..Len(value) : value[i] \in DigitSet

\* The text the claim gives for a condition in the WHERE clause.
ClaimedCondition(c) ==
    (IF c.table # <<>> THEN c.table \o <<".">> ELSE <<>>) \o c.column \o <<" ">> \o c.operator
        \o <<" ">>
        \o (IF c.operator = <<"L","I","K","E">> THEN <<"'","%">> \o Bare(c.value) \o <<"%","'">>
            ELSE IF AllDigits(c.value) THEN c.value
            ELSE <<"'">> \o c.value \o <<"'">>)

\* C24: a LIKE condition is rendered with its operand quoted and wrapped once in
\* % wildcards, whatever the value; with another operator the value is quoted
\* exactly when it is not numeric.
C24_LikeOperandWrappedOnce ==
    IsTranslated(last) =>
        \A n \in 1..Len(last.components.where) :
            LET c == last.components.where[n]
                text == <<"\n"," "," "," "," ">> \o ClaimedCondition(c)
            IN  \/ Contains(last.result.sql, text \o <<" ","A","N","D","\n">>)
                \/ Contains(last.result.sql, text \o <<"\n">>)
                \/ EndsWith(last.result.sql, text \o <<";">>)

\* ------------------------------------------------------------ the order key

\* Questions with and without an ordering word, with and without a count.
OrderQuestions ==
    { <<"h","o","w"," ","m","a","n","y"," ","u","s","e","r","s"," ","s","o","r","t","e","d"," ","b","y"," ","n","a","m","e">>, <<"s","h","o","w"," ","u","s","e","r","s"," ","s","o","r","t","e","d"," ","b","y"," ","n","a","m","e">>,
      <<"l","i","s","t"," ","u","s","e","r","s"," ","o","r","d","e","r"," ","b","y"," ","n","a","m","e"," ","d","e","s","c","e","n","d","i","n","g">>, <<"t","o","p"," ","3"," ","u","s","e","r","s">>, <<"l","i","s","t"," ","u","s","e","r","s">>,
      <<"c","o","u","n","t"," ","o","f"," ","u","s","e","r","s"," ","o","r","d","e","r"," ","b","y"," ","a","n","y","t","h","i","n","g">>, <<"H","i","g","h","e","s","t"," ","p","r","i","c","e"," ","o","f"," ","p","r","o","d","u","c","t","s">>,
      <<"s","h","o","w"," ","p","r","o","d","u","c","t","s"," ","s","o","r","t","e","d"," ","b","y"," ","p","r","i","c","e"," ","l","i","m","i","t"," ","t","o"," ","2">>, <<"h","o","w"," ","m","a","n","y"," ","o","r","d","e","r","s">>,
      <<"u","s","e","r","s"," ","i","n"," ","a","l","p","h","a","b","e","t","i","c","a","l"," ","o","r","d","e","r">>, <<"r","a","n","k"," ","b","y"," ","n","o","t","h","i","n","g">> }

NextOrder == \E q \in OrderQuestions : process_query(q)

\* An agent asked the questions with ordering.
SpecOrder == Init /\ [][NextOrder]_vars

\* The sort key the claim gives for an order-by entry of a plan.
ClaimedOrderKey(components) ==
    LET named == { i \in 1..Len(components.select) : components.select[i].column # <<"*">> }
    IN  IF components.order_by[1].column # <<"*">> THEN components.order_by[1].column
        ELSE IF named # {} THEN components.select[SetMin(named)].column
        ELSE <<"1">>

\* The text after the header ORDER BY, up to the end of the clause.
OrderClause(o) ==
    LET sql == o.result.sql
        at == { i \in 1..(Len(sql) - 12) : SubSeq(sql, i, i + 12) = <<"O","R","D","E","R"," ","B","Y","\n"," "," "," "," ">> }
        start == SetMin(at) + 13
        ends == { j \in start..Len(sql) : sql[j] \in {"\n", ";"} }
    IN  IF at = {} THEN <<>> ELSE SubSeq(sql, start, SetMin(ends) - 1)

\* C25: the rendered ORDER BY never has '*' as its sort key: for a plan whose
\* order-by column is '*' the key is the first non-wildcard select column, or 1
\* when the select list has none.
C25_WildcardNeverSortKey ==
    IsTranslated(last) /\ last.components.order_by # <<>>
        => /\ OrderClause(last)
                = (IF last.components.order_by[1].table # <<>>
                   THEN last.components.order_by[1].table \o <<".">> ELSE <<>>)
                  \o ClaimedOrderKey(last.components) \o <<" ">>
                  \o last.components.order_by[1].direction
           /\ ~Contains(OrderClause(last), <<"*">>)

\* C25, its case: a plan that counts all rows and orders by '*' has been rendered
\* with the positional key.
C25_OrderedCountOfAllRows ==
    /\ IsTranslated(last)
    /\ last.components.order_by # <<>>
    /\ last.components.order_by[1].column = <<"*">>
    /\ last.components.select[1].type = "aggregation"
    /\ OrderClause(last) = <<"1"," ","A","S","C">>

\* ---------------------------------------------------------- the FROM clause

\* The lines of the FROM clause of a rendered text, without their indentation.
FromLines(sql) ==
    LET lines == SqlLines(sql)
        k == CHOOSE n \in 1..Len(lines) : lines[n] = <<"F","R","O","M">>
        body == SubSeq(lines, k + 1, k + SectionSize(lines, k))
    IN  [n \in 1..Len(body) |-> SubSeq(body[n], 5, Len(body[n]))]

\* The line joins this table: it is the unconditional join the claim gives for a
\* table without relationship, or a JOIN of the table on a predicate.
JoinsTable(line, table, unrelated, has_relationships) ==
    IF unrelated
    THEN line = (IF has_relationships THEN <<"L","E","F","T"," ","J","O","I","N"," ">> \o table \o <<" ","O","N"," ","1","=","1">>
                 ELSE <<"C","R","O","S","S"," ","J","O","I","N"," ">> \o table)
    ELSE StartsWith(line, <<"J","O","I","N"," ">> \o table \o <<" ","O","N"," ">>)

\* C26: the FROM clause holds every table of the plan once and in plan order:
\* the first table alone on its line, then one join line per further table; a
\* table with no relationship to an earlier one is joined by `LEFT JOIN t ON 1=1`
\* when the metadata holds relationships and by `CROSS JOIN t` when it holds none.
C26_EveryTableInFromClause ==
    IsRendered(last) =>
        LET from_tables == last.components.from
            lines == FromLines(last.result.sql)
        IN  /\ Len(lines) = Len(from_tables)
            /\ lines[1] = from_tables[1]
            /\ \A i \in 2..Len(from_tables) :
                  JoinsTable(lines[i], from_tables[i],
                             ~(/\ metadata.has_relationships
                               /\ HasProbeHit(metadata.relationships, from_tables, i)),
                             metadata.has_relationships)

\* C26, its case: with relationships for users and orders only, the third table
\* of the plan has been joined unconditionally.
C26_UnrelatedTableJoined ==
    /\ IsRendered(last)
    /\ last.components.from = << <<"u","s","e","r","s">>, <<"o","r","d","e","r","s">>, <<"p","r","o","d","u","c","t","s">> >>
    /\ metadata = reverse_metadata
    /\ FromLines(last.result.sql)
         = << <<"u","s","e","r","s">>, <<"J","O","I","N"," ","o","r","d","e","r","s"," ","O","N"," ","o","r","d","e","r","s",".","u","s","e","r","_","i","d"," ","="," ","u","s","e","r","s",".","i","d">>,
              <<"L","E","F","T"," ","J","O","I","N"," ","p","r","o","d","u","c","t","s"," ","O","N"," ","1","=","1">> >>

\* ------------------------------------------------------ the manager's loop

\* The step ran execute_analyzed_query: the turn ends executed or crashed.
Executes == turn.pc = "confirm" /\ turn'.pc \in {"executed", "crashed"}

\* C27: in the loop an analysed operation reaches execute_analyzed_query, and a
\* statement reaches the history, only from the confirmation prompt and only on
\* the answer 'confirm' when its risk level is high or critical and on 'y'
\* otherwise; on any other answer the operation is cancelled and the history
\* and the tables stay as they were.
C27_NothingRunsUnconfirmed ==
    [][ /\ (turn'.pc \in {"executed", "crashed"} /\ turn.pc # turn'.pc) => Executes
        /\ manager'.history # manager.history => Executes
        /\ Executes =>
              Lower(turn'.confirm)
                 = (IF turn.analysis.risk_level \in {"high", "critical"}
                    THEN <<"c","o","n","f","i","r","m">> ELSE <<"y">>)
        /\ (turn.pc = "confirm" /\ ~Executes) =>
              /\ turn'.pc = "cancelled"
              /\ manager' = manager
              /\ Lower(turn'.confirm)
                   # (IF turn.analysis.risk_level \in {"high", "critical"}
                      THEN <<"c","o","n","f","i","r","m">> ELSE <<"y">>) ]_vars

\* C27, its case: a critical DELETE has been run and logged on the answer
\* 'confirm'.
C27_CriticalDeleteConfirmed ==
    /\ turn.pc = "crashed"
    /\ turn.analysis.risk_level = "critical"
    /\ turn.confirm = <<"c","o","n","f","i","r","m">>
    /\ manager.history = << <<"D","E","L","E","T","E"," ","F","R","O","M"," ","u","s","e","r","s">> >>

\* The request deletes or destroys data: a natural-language DELETE on a known
\* table, or a direct statement that starts with DELETE or DROP.
IsDestructive(parsed) ==
    \/ parsed.type = "nl_query" /\ parsed.intent = "DELETE" /\ parsed.tables # <<>>
    \/ /\ parsed.type = "direct_sql"
       /\ \/ StartsWith(Upper(Strip(parsed.query)), <<"D","E","L","E","T","E">>)
          \/ StartsWith(Upper(Strip(parsed.query)), <<"D","R","O","P">>)

\* C30: every request that deletes or destroys data, in natural language or as
\* a direct statement, is rated high or critical, so that it waits for 'confirm'.
C30_DestructiveNeedsConfirm ==
    turn.pc = "confirm" /\ IsDestructive(turn.parsed)
        => turn.analysis.risk_level \in {"high", "critical"}

\* ------------------------------------------------- the two ways to give a schema

\* A fresh agent that got its schema from set_schema: QueryGPT() and then
\* set_schema(schema), nothing else called yet.
SetUpBySetSchema ==
    /\ last.op = "set_schema"
    /\ schema.kind = "dict"
    /\ IsAgent([QueryGPT(NoSchema, "None") EXCEPT
                   !.schema = schema,
                   !.table_descriptions = DescriptionsAfter(NoDescriptions, schema)])

\* What the fresh agent QueryGPT(s) returns for the question, read at the same
\* clock.
ConstructedAnswers(s, question) ==
    { Process(QueryGPT(s, "None"), question, TRUE, current_time,
              _is_unsafe_query(question), _analyze_query(question)) :
          current_time \in ClockReads(question) }

\* C29: a fresh agent given its schema by set_schema returns, for every question,
\* the bound tables and the sql that a fresh agent given the same schema by the
\* constructor returns.
C29_SetSchemaAsConstructor ==
    [][ SetUpBySetSchema /\ IsCall(last') =>
          \E built \in ConstructedAnswers(schema, last'.question) :
              /\ last'.tables = built.tables
              /\ last'.result = built.result ]_vars
====
